---- MODULE Spec2Model ----
(***************************************************************************)
(* The sort-keys rule of eslint-plugin-sort-keys-plus                      *)
(* (lib/rules/sort-keys.js) as a state machine.                            *)
(*                                                                         *)
(* The host (ESLint) walks a syntax tree depth first and calls the rule's  *)
(* visitor handlers: ObjectExpression, Property, SpreadElement,            *)
(* ExperimentalSpreadProperty and ObjectExpression:exit.  The rule keeps   *)
(* one mutable thing, the linked list `stack`, and reports violations      *)
(* through context.report.                                                 *)
(*                                                                         *)
(* Strings are sequences of UTF-16 code units, so that comparison, case    *)
(* conversion, sorting and joining are computed as JavaScript computes     *)
(* them.                                                                   *)
(***************************************************************************)
EXTENDS Integers, Sequences, FiniteSets

VARIABLES
  opts,     \* context.options after the defaults of create() are applied
  events,   \* the node events the host dispatches for the file, in order
  pc,       \* index of the next event to dispatch
  stack,    \* the rule's stack of frames, innermost last
  reports,  \* the descriptors handed to context.report, in order
  pass,     \* 1 for the lint of the given text, 2 for the lint of the fixed text
  thrown,   \* the exception that ended the lint, "" for none
  other     \* a second instantiation of the rule, whose traversal is under way
            \* while the handlers of this one run

vars == <<opts, events, pc, stack, reports, pass, thrown, other>>

\* ---------------------------------------------------------------- bounds

\* Most members of one object literal.
MaxProps == 3

\* ------------------------------------------------------------- JS strings

\* null / undefined where a string may stand (a string is a tuple of code units).
NoName == <<-1>>

\* No node (stack.prevNode === null) and no override (override === undefined).
NoNode == 0

NoOverride == 0

\* override.order of an override that declares no order (undefined).
NoOrder == <<NoName>>

sEmpty == <<>>

sDollar == <<36>>

sComma == <<44>>

s1 == <<49>>

s2 == <<50>>

s10 == <<49, 48>>

sB == <<66>>

sC == <<67>>

sUnder == <<95>>

sa == <<97>>

sb == <<98>>

sc == <<99>>

sy == <<121>>

\* One code unit in upper case (ASCII letters).
UpperUnit(c) == IF c >= 97 /\ c <= 122 THEN c - 32 ELSE c

\* One code unit in lower case (ASCII letters).
LowerUnit(c) == IF c >= 65 /\ c <= 90 THEN c + 32 ELSE c

toUpperCase(s) == [i \in 1..Len(s) |-> UpperUnit(s[i])]

toLowerCase(s) == [i \in 1..Len(s) |-> LowerUnit(s[i])]

\* JavaScript's a < b on strings: code unit by code unit, a proper prefix first.
RECURSIVE StrLT(_, _)
StrLT(a, b) ==
  IF b = <<>> THEN FALSE
  ELSE IF a = <<>> THEN TRUE
  ELSE IF a[1] # b[1] THEN a[1] < b[1]
  ELSE StrLT(Tail(a), Tail(b))

\* JavaScript's a <= b on strings.
StrLE(a, b) == a = b \/ StrLT(a, b)

\* --------------------------------------------------------- natural-compare

\* getCode(str, pos) without the third argument: the rank of one code unit,
\* 0 past the end of the string.
NcRank(code) ==
  IF code < 45 \/ code > 127 THEN code
  ELSE IF code < 46 THEN 65
  ELSE IF code < 48 THEN code - 1
  ELSE IF code < 58 THEN code + 18
  ELSE IF code < 65 THEN code - 11
  ELSE IF code < 91 THEN code + 11
  ELSE IF code < 97 THEN code - 37
  ELSE IF code < 123 THEN code + 5
  ELSE code - 63

NcGetCode(str, pos) == IF pos + 1 > Len(str) THEN 0 ELSE NcRank(str[pos + 1])

NcIsDigit(code) == code < 76 /\ code > 65

\* The index at which the run of digits that holds position i ends.
RECURSIVE NcDigitEnd(_, _)
NcDigitEnd(str, i) ==
  IF NcIsDigit(NcGetCode(str, i)) THEN NcDigitEnd(str, i + 1) ELSE i

\* +str.slice(from, to) for a run of digits.
RECURSIVE NcNumber(_, _, _)
NcNumber(str, from, to) ==
  IF to <= from THEN 0
  ELSE 10 * NcNumber(str, from, to - 1) + (str[to] - 48)

\* The loop of naturalCompare from positions posA and posB on.
RECURSIVE NcLoop(_, _, _, _)
NcLoop(a, b, posA, posB) ==
  LET rawA == NcGetCode(a, posA)
      rawB == NcGetCode(b, posB)
      digits == NcIsDigit(rawA) /\ NcIsDigit(rawB)
      endA == NcDigitEnd(a, posA + 1)
      endB == NcDigitEnd(b, posB + 1)
      codeA == IF digits THEN NcNumber(a, posA, endA) ELSE rawA
      codeB == IF digits THEN NcNumber(b, posB, endB) ELSE rawB
  IN  IF codeA # codeB THEN (IF codeA < codeB THEN -1 ELSE 1)
      ELSE IF codeB = 0 THEN 0
      ELSE NcLoop(a, b, IF digits THEN endA ELSE posA + 1,
                        IF digits THEN endB ELSE posB + 1)

naturalCompare(a, b) == IF a = b THEN 0 ELSE NcLoop(a, b, 0, 0)

\* ------------------------------------------------------------ comparators

\* isValidOrders: the eight base comparators, keyed as the rule keys them.
asc(a, b) == StrLE(a, b)

ascI(a, b) == StrLE(toLowerCase(a), toLowerCase(b))

ascN(a, b) == naturalCompare(a, b) <= 0

ascIN(a, b) == naturalCompare(toLowerCase(a), toLowerCase(b)) <= 0

isValidOrders(order, insensitive, natural, a, b) ==
  LET x == IF order = "asc" THEN a ELSE b
      y == IF order = "asc" THEN b ELSE a
  IN  IF insensitive
      THEN (IF natural THEN ascIN(x, y) ELSE ascI(x, y))
      ELSE (IF natural THEN ascN(x, y) ELSE asc(x, y))

\* Tri-state verdicts: "true", "false" and "null".
Tri(b) == IF b THEN "true" ELSE "false"

\* A test for which a name is all caps only if it has an upper-case letter.
isValidAllCapsTest_LettersOnly(a, b) ==
  LET hasUpper(x) == \E i \in 1..Len(x) : x[i] >= 65 /\ x[i] <= 90
      aIsAllCaps == a = toUpperCase(a) /\ hasUpper(a)
      bIsAllCaps == b = toUpperCase(b) /\ hasUpper(b)
  IN  IF aIsAllCaps = bIsAllCaps THEN "null" ELSE Tri(aIsAllCaps /\ ~bIsAllCaps)

isValidAllCapsTest(a, b) ==
  LET aIsAllCaps == a = toUpperCase(a)
      bIsAllCaps == b = toUpperCase(b)
  IN  IF aIsAllCaps = bIsAllCaps THEN "null" ELSE Tri(aIsAllCaps /\ ~bIsAllCaps)

\* a and b are the shorthand flags of the two nodes.
isValidShorthandTest(a, b) ==
  IF (~a) = (~b) THEN "null" ELSE Tri(a /\ ~b)

\* A constant grouping that is never applied.
isValidOrderAllCaps_Ignored(option, a, b) == "null"

\* firstLastTest(option, isValidAllCapsTest)(a, b)
isValidOrderAllCaps(option, a, b) ==
  IF option = "first" THEN isValidAllCapsTest(a, b)
  ELSE IF option = "last" THEN isValidAllCapsTest(b, a)
  ELSE "null"

\* firstLastTest(option, isValidShorthandTest)(a, b)
isValidOrderShorthand(option, a, b) ==
  IF option = "first" THEN isValidShorthandTest(a, b)
  ELSE IF option = "last" THEN isValidShorthandTest(b, a)
  ELSE "null"

\* order.indexOf(x): the first 0-based index of x, -1 when absent.
indexOf(order, x) ==
  IF \E i \in 1..Len(order) : order[i] = x
  THEN (CHOOSE i \in 1..Len(order) :
          order[i] = x /\ \A j \in 1..(i - 1) : order[j] # x) - 1
  ELSE -1

\* A comparator that gives no verdict when only the second name is in the order.
validCustomOrderComparator_OnlySecondUndecided(order, a, b) ==
  LET aIndex == indexOf(order, a)
      bIndex == indexOf(order, b)
  IN  IF aIndex >= 0
      THEN (IF bIndex >= 0 THEN Tri(aIndex <= bIndex) ELSE "true")
      ELSE "null"

validCustomOrderComparator(order, a, b) ==
  LET aIndex == indexOf(order, a)
      bIndex == indexOf(order, b)
  IN  IF aIndex >= 0
      THEN (IF bIndex >= 0 THEN Tri(aIndex <= bIndex) ELSE "true")
      ELSE (IF bIndex < 0 THEN "null" ELSE "false")

\* ---------------------------------------------------------------- the AST

\* The events of the members of an object literal, one after the other.
RECURSIVE Flatten(_)
Flatten(members) ==
  IF members = <<>> THEN <<>>
  ELSE <<[members[1].node EXCEPT !.size = 1 + Len(members[1].sub)]>>
         \o members[1].sub \o Flatten(Tail(members))

\* A key node: an Identifier has a name, a Literal a value, any other
\* expression neither (NoName stands for undefined).
IdentifierKey(name) == [type |-> "Identifier", name |-> name, value |-> NoName]

LiteralKey(value) == [type |-> "Literal", name |-> NoName, value |-> value]

\* a + b
ExpressionKey == [type |-> "BinaryExpression", name |-> NoName, value |-> NoName]

\* astUtils.getStaticPropertyName(node): the name of a key that is an
\* identifier and not computed, the text of a key that is a literal, null
\* otherwise.
getStaticPropertyName(node) ==
  IF node.type # "Property" THEN NoName
  ELSE IF node.key.type = "Identifier" /\ ~node.computed THEN node.key.name
  ELSE IF node.key.type = "Literal" THEN node.key.value
  ELSE NoName

\* A name only for the keys that have a static name.
getPropertyName_StaticOnly(node) == getStaticPropertyName(node)

\* getPropertyName(node)
getPropertyName(node) ==
  LET staticName == getStaticPropertyName(node)
  IN  IF staticName # NoName THEN staticName
      ELSE IF node.type = "Property" /\ node.key.name # NoName /\ node.key.name # <<>>
      THEN node.key.name
      ELSE NoName

\* s can be written as an identifier (ASCII letters, digits, $ and _, no digit
\* first).
IsIdentifierName(s) ==
  /\ s # <<>>
  /\ s # NoName
  /\ ~(s[1] >= 48 /\ s[1] <= 57)
  /\ \A i \in 1..Len(s) :
       \/ s[i] >= 48 /\ s[i] <= 57
       \/ s[i] >= 65 /\ s[i] <= 90
       \/ s[i] >= 97 /\ s[i] <= 122
       \/ s[i] = 36
       \/ s[i] = 95

\* The key of an entry written with the name `name`: an identifier where the
\* name can be one, a string literal otherwise, an expression for no name.
KeyFor(name) ==
  IF name = NoName THEN ExpressionKey
  ELSE IF IsIdentifierName(name) THEN IdentifierKey(name)
  ELSE LiteralKey(name)

\* A Property node with the key `key`: `name` is what getPropertyName returns
\* for it, `gap` whether a blank line separates it from the member before it,
\* `comments` the number of comments right before it.
KeyedNode(parentType, key, computed, shorthand, gap) ==
  [type |-> "Property", parentType |-> parentType, key |-> key,
   name |-> getPropertyName([type |-> "Property", key |-> key, computed |-> computed]),
   computed |-> computed, shorthand |-> shorthand, gap |-> gap, size |-> 1,
   comments |-> 0]

\* A Property node whose key is written with the name `name` (NoName for a
\* computed key that is neither a literal nor an identifier).
PropertyNode(parentType, name, computed, shorthand, gap) ==
  KeyedNode(parentType, KeyFor(name), computed, shorthand, gap)

SpreadNode(type, parentType) ==
  [type |-> type, parentType |-> parentType, name |-> NoName, size |-> 1]

\* A member of an object literal with the events of its value's subtree.
Member(node, sub) == [node |-> node, sub |-> sub]

\* What ObjectExpression(node) reads of node.parent.  keyName is
\* `typeof key.value === 'string' ? key.value : key.name`.
ParentOf(member) ==
  [type |-> "Property", computed |-> member.computed,
   keyName |-> IF member.key.value # NoName THEN member.key.value
               ELSE member.key.name]

NoParentProperty ==
  [type |-> "VariableDeclarator", computed |-> FALSE, keyName |-> NoName]

\* The events of an object literal: the node itself, its members, its exit.
\* matches: the overrides whose esquery selector matches the node.
ObjectEvents(members, parent, oneLine, matches) ==
  <<[type |-> "ObjectExpression", parent |-> parent,
     properties |-> [i \in 1..Len(members) |-> getPropertyName(members[i].node)],
     oneLine |-> oneLine, matches |-> matches]>>
    \o Flatten(members)
    \o <<[type |-> "ObjectExpression:exit"]>>

\* ------------------------------------------------------------ create(context)

Overrides == opts.overrides

\* A Map that keeps the first of the overrides that list `name`.
PropOverride_FirstDeclared(name) ==
  LET hits == {i \in 1..Len(Overrides) :
                 \E k \in 1..Len(Overrides[i].properties) :
                    Overrides[i].properties[k] = name}
  IN  IF hits = {} THEN NoOverride
      ELSE CHOOSE i \in hits : \A j \in hits : i <= j

\* propOverrides.get(name): of the overrides that list `name` in `properties`,
\* the Map keeps the last one.
PropOverride(name) ==
  LET hits == {i \in 1..Len(Overrides) :
                 \E k \in 1..Len(Overrides[i].properties) :
                    Overrides[i].properties[k] = name}
  IN  IF hits = {} THEN NoOverride
      ELSE CHOOSE i \in hits : \A j \in hits : j <= i

\* A lookup that keeps the last of the matching selectors.
EsqueryOverride_LastMatch(node) ==
  LET hits == {i \in 1..Len(Overrides) :
                 Overrides[i].esquery /\ i \in node.matches}
  IN  IF hits = {} THEN NoOverride
      ELSE CHOOSE i \in hits : \A j \in hits : j <= i

\* esqueryOverrides.find(candidate => esquery.matches(node, ...)): the first one.
EsqueryOverride(node) ==
  LET hits == {i \in 1..Len(Overrides) :
                 Overrides[i].esquery /\ i \in node.matches}
  IN  IF hits = {} THEN NoOverride
      ELSE CHOOSE i \in hits : \A j \in hits : i <= j

\* Array.prototype.sort() without a comparator: ascending by code units.
RECURSIVE SortStrings(_)
SortStrings(seq) ==
  IF seq = <<>> THEN <<>>
  ELSE LET m == CHOOSE i \in 1..Len(seq) :
                  \A j \in 1..Len(seq) :
                     StrLE(seq[i], seq[j]) /\ (seq[i] = seq[j] => i <= j)
       IN  <<seq[m]>>
             \o SortStrings([k \in 1..(Len(seq) - 1) |->
                               IF k < m THEN seq[k] ELSE seq[k + 1]])

\* Array.prototype.join() with the default separator.
RECURSIVE Join(_)
Join(seq) ==
  IF seq = <<>> THEN <<>>
  ELSE IF Len(seq) = 1 THEN seq[1]
  ELSE seq[1] \o sComma \o Join(Tail(seq))

\* The elements of seq at the positions in idx, in order.
RECURSIVE Pick(_, _, _)
Pick(seq, idx, i) ==
  IF i > Len(seq) THEN <<>>
  ELSE (IF i \in idx THEN <<seq[i]>> ELSE <<>>) \o Pick(seq, idx, i + 1)

\* combination(arr, minLength): every non-empty subsequence of arr of at least
\* minLength elements.
combination(arr, minLength) ==
  {Pick(arr, idx, 1) :
     idx \in {s \in SUBSET (1..Len(arr)) : s # {} /\ Cardinality(s) >= minLength}}

\* The keys under which the forEach loop files override i in otherOverrides.
OtherKeys(i) ==
  IF Overrides[i].esquery \/ Overrides[i].properties # <<>> THEN {}
  ELSE {Join(combo) :
          combo \in combination(SortStrings(Overrides[i].order), opts.minKeys)}

\* otherOverrides.get(key) after the forEach loop over the first n overrides:
\* a later override replaces the entry only when its order is strictly shorter.
RECURSIVE OtherOverrideUpTo(_, _)
OtherOverrideUpTo(key, n) ==
  IF n = 0 THEN NoOverride
  ELSE LET existing == OtherOverrideUpTo(key, n - 1)
       IN  IF key \in OtherKeys(n)
              /\ (existing = NoOverride
                  \/ Len(Overrides[n].order) < Len(Overrides[existing].order))
           THEN n
           ELSE existing

OtherOverride(key) == OtherOverrideUpTo(key, Len(Overrides))

\* otherOverrides.size > 0
OtherOverridesNonEmpty == \E i \in 1..Len(Overrides) : OtherKeys(i) # {}

\* A base comparator that does not look at the direction.
isValidOrderAlpha_AscendingOnly(a, b) ==
  isValidOrders("asc", opts.insensitive, opts.natural, a, b)

isValidOrderAlpha(a, b) ==
  isValidOrders(opts.order, opts.insensitive, opts.natural, a, b)

\* ------------------------------------------------------------------ handlers

Node == events[pc]

Dispatch(types) == thrown = "" /\ pc <= Len(events) /\ Node.type \in types

Top == stack[Len(stack)]

SetTop(frame) == [stack EXCEPT ![Len(stack)] = frame]

\* node.properties.map(getPropertyName).filter(name => name !== null)
StaticNames(node) == SelectSeq(node.properties, LAMBDA n : n # NoName)

\* A resolution that asks the selectors before the parent's key.
ResolveOverride_SelectorFirst(node) ==
  LET byEsquery == EsqueryOverride(node)
      byParent == IF byEsquery # NoOverride THEN byEsquery
                  ELSE IF node.parent.type = "Property" /\ ~node.parent.computed
                  THEN PropOverride(node.parent.keyName)
                  ELSE NoOverride
  IN  IF byParent = NoOverride /\ OtherOverridesNonEmpty
      THEN OtherOverride(Join(SortStrings(StaticNames(node))))
      ELSE byParent

\* The override ObjectExpression(node) resolves for the node.
ResolveOverride(node) ==
  LET byParent == IF node.parent.type = "Property" /\ ~node.parent.computed
                  THEN PropOverride(node.parent.keyName)
                  ELSE NoOverride
      byEsquery == IF byParent # NoOverride THEN byParent
                   ELSE EsqueryOverride(node)
  IN  IF byEsquery = NoOverride /\ OtherOverridesNonEmpty
      THEN OtherOverride(Join(SortStrings(StaticNames(node))))
      ELSE byEsquery

\* A frame that is never exempt.
FrameIgnore_Never(node) == FALSE

\* A frame that is also exempt under a frame whose override ignores.
FrameIgnore_InheritsOverride(node) ==
  \/ stack # <<>> /\ (Top.ignore \/ (Top.override # NoOverride
                                       /\ Overrides[Top.override].ignore))
  \/ opts.ignoreSingleLine /\ node.oneLine

\* ignore: (stack && stack.ignore) || (ignoreSingleLine && the node is on one line)
FrameIgnore(node) ==
  (stack # <<>> /\ Top.ignore) \/ (opts.ignoreSingleLine /\ node.oneLine)

\* A count of the entries with a static name only.
NumKeysOf_StaticOnly(node) == Len(StaticNames(node))

\* numKeys: node.properties.length, spreads and unnamed entries included.
NumKeysOf(node) == Len(node.properties)

\* ObjectExpression(node): push a frame.
ObjectExpression ==
  /\ Dispatch({"ObjectExpression"})
  /\ stack' = Append(stack,
       [ignore |-> FrameIgnore(Node),
        prevNode |-> NoNode,
        prevBlankLine |-> FALSE,
        prevName |-> NoName,
        prevNameSkipped |-> FALSE,
        numKeys |-> NumKeysOf(Node),
        parentName |-> IF Node.parent.type = "Property" /\ ~Node.parent.computed
                       THEN Node.parent.keyName ELSE NoName,
        override |-> ResolveOverride(Node)])
  /\ pc' = pc + 1
  /\ UNCHANGED <<opts, events, reports, pass, thrown, other>>

\* An exit that leaves the frame on the stack.
ObjectExpressionExit_NoPop ==
  /\ Dispatch({"ObjectExpression:exit"})
  /\ pc' = pc + 1
  /\ UNCHANGED <<opts, events, stack, reports, pass, thrown, other>>

\* An exit that also forgets the previous entry of the enclosing frame.
ObjectExpressionExit_ResetsOuter ==
  /\ Dispatch({"ObjectExpression:exit"})
  /\ stack' = IF Len(stack) = 1 THEN <<>>
              ELSE Append(SubSeq(stack, 1, Len(stack) - 2),
                          [stack[Len(stack) - 1] EXCEPT !.prevNode = NoNode,
                                                        !.prevName = NoName])
  /\ pc' = pc + 1
  /\ UNCHANGED <<opts, events, reports, pass, thrown, other>>

\* 'ObjectExpression:exit'(): pop the frame.
ObjectExpressionExit ==
  /\ Dispatch({"ObjectExpression:exit"})
  /\ stack' = SubSeq(stack, 1, Len(stack) - 1)
  /\ pc' = pc + 1
  /\ UNCHANGED <<opts, events, reports, pass, thrown, other>>

\* A spread that leaves the frame as it is.
SpreadReset_Nothing(frame) == frame

\* A spread that forgets only that the previous entry was unnamed.
SpreadReset_KeepsEntry(frame) == [frame EXCEPT !.prevNameSkipped = FALSE]

\* The frame after a spread in the object literal it belongs to.
SpreadReset(frame) ==
  [frame EXCEPT !.prevNode = NoNode, !.prevName = NoName, !.prevNameSkipped = FALSE]

\* A handler that clears the current frame whatever the spread's parent is,
\* and fails on `stack.prevNode = null` while no literal is open.
SpreadElement_AnyParent ==
  /\ Dispatch({"SpreadElement", "ExperimentalSpreadProperty"})
  /\ IF stack = <<>>
     THEN stack' = stack /\ thrown' = "TypeError"
     ELSE stack' = SetTop(SpreadReset(Top)) /\ thrown' = thrown
  /\ pc' = pc + 1
  /\ UNCHANGED <<opts, events, reports, pass, other>>

\* SpreadElement(node), also registered as ExperimentalSpreadProperty.
SpreadElement ==
  /\ Dispatch({"SpreadElement", "ExperimentalSpreadProperty"})
  /\ stack' = IF Node.parentType = "ObjectExpression"
              THEN SetTop(SpreadReset(Top))
              ELSE stack
  /\ pc' = pc + 1
  /\ UNCHANGED <<opts, events, reports, pass, thrown, other>>

\* A test that never finds a blank line.
hasBlankLineBetweenNodes_Never(node, prevNode) == FALSE

\* hasBlankLineBetweenNodes(context, node, prevNode)
hasBlankLineBetweenNodes(node, prevNode) == prevNode # NoNode /\ node.gap

\* meta.messages: the template of a messageId.
messages(messageId) ==
  CASE messageId = "sortKeys" ->
         "Expected object keys to be in {{natural}}{{insensitive}}{{order}}ending order. '{{thisName}}' should be before '{{prevName}}'."
    [] messageId = "sortKeysAllCaps" ->
         "Expected all caps object keys to be {{allCaps}}. '{{thisName}}' should be before '{{prevName}}'."
    [] messageId = "sortKeysOverride" ->
         "Expected {{parentName}} object keys to be in custom order. '{{thisName}}' should be before '{{prevName}}'."
    [] messageId = "sortKeysShorthand" ->
         "Expected shorthand properties to be {{shorthand}}. '{{thisName}}' should be before '{{prevName}}'."

\* What createReport appends to an override's own message.
MessageSuffix == " '{{thisName}}' should be before '{{prevName}}'."

\* A report that never carries the override's own message.
createReport_NoCustomMessage(node, prevNode, fixable, messageId, thisName, prevName, overrideMessage) ==
  [node |-> node,
   messageId |-> messageId,
   message |-> "",
   thisName |-> thisName,
   prevName |-> prevName,
   fix |-> fixable,
   fixNode |-> IF fixable THEN node ELSE NoNode,
   fixPrevNode |-> IF fixable THEN prevNode ELSE NoNode]

\* createReport: the descriptor handed to context.report.  `message` is the
\* override's own text with the suffix when it has one ("" otherwise), and the
\* messageId is then not used.
createReport(node, prevNode, fixable, messageId, thisName, prevName, overrideMessage) ==
  [node |-> node,
   messageId |-> IF overrideMessage # "" THEN "" ELSE messageId,
   message |-> IF overrideMessage # "" THEN overrideMessage \o MessageSuffix ELSE "",
   thisName |-> thisName,
   prevName |-> prevName,
   fix |-> fixable,
   fixNode |-> IF fixable THEN node ELSE NoNode,
   fixPrevNode |-> IF fixable THEN prevNode ELSE NoNode]

\* A decision that asks constant-grouping before the override.
Verdict_AllCapsFirst(frame, prevName, thisName, prevShorthand, thisShorthand) ==
  LET isValidOverride ==
        IF frame.override # NoOverride
        THEN validCustomOrderComparator(Overrides[frame.override].order,
                                        prevName, thisName)
        ELSE "null"
      isValidAllCaps == isValidOrderAllCaps(opts.allCaps, prevName, thisName)
      isValidShorthand ==
        isValidOrderShorthand(opts.shorthand, prevShorthand, thisShorthand)
  IN  IF isValidAllCaps = "false" THEN "sortKeysAllCaps"
      ELSE IF isValidOverride = "false" THEN "sortKeysOverride"
      ELSE IF isValidOverride = "true" THEN ""
      ELSE IF isValidShorthand = "false" THEN "sortKeysShorthand"
      ELSE IF isValidAllCaps = "true" \/ isValidShorthand = "true" THEN ""
      ELSE IF ~isValidOrderAlpha(prevName, thisName) THEN "sortKeys"
      ELSE ""

\* The messageId of the report Property(node) makes for the pair, "" for none.
Verdict(frame, prevName, thisName, prevShorthand, thisShorthand) ==
  LET isValidOverride ==
        IF frame.override # NoOverride
        THEN validCustomOrderComparator(Overrides[frame.override].order,
                                        prevName, thisName)
        ELSE "null"
      isValidAllCaps == isValidOrderAllCaps(opts.allCaps, prevName, thisName)
      isValidShorthand ==
        isValidOrderShorthand(opts.shorthand, prevShorthand, thisShorthand)
  IN  IF isValidOverride = "false" THEN "sortKeysOverride"
      ELSE IF isValidOverride = "true" THEN ""
      ELSE IF isValidAllCaps = "false" THEN "sortKeysAllCaps"
      ELSE IF isValidShorthand = "false" THEN "sortKeysShorthand"
      ELSE IF isValidAllCaps = "true" \/ isValidShorthand = "true" THEN ""
      ELSE IF ~isValidOrderAlpha(prevName, thisName) THEN "sortKeys"
      ELSE ""

\* A threshold that is one entry too low.
TooFewKeys_OffByOne(frame) == frame.numKeys + 1 < opts.minKeys

\* numKeys < minKeys
TooFewKeys(frame) == frame.numKeys < opts.minKeys

\* Every report carries a fix.
Fixable_Always(frame) == TRUE

\* const fixable = !prevNameSkipped
Fixable(frame) == ~frame.prevNameSkipped

\* An override that never suspends the checks.
OverrideIgnores_Never(frame) == FALSE

\* stack.override && stack.override.ignore
OverrideIgnores(frame) ==
  frame.override # NoOverride /\ Overrides[frame.override].ignore

\* An early return that knows destructuring patterns only outside every
\* object literal.
SkipsProperty_PatternOutsideOnly(node) ==
  IF stack = <<>> THEN node.parentType = "ObjectPattern"
  ELSE Top.ignore \/ OverrideIgnores(Top)

\* node.parent.type === 'ObjectPattern' || stack.ignore ||
\*   (stack.override && stack.override.ignore)
SkipsProperty(node) ==
  node.parentType = "ObjectPattern" \/ Top.ignore \/ OverrideIgnores(Top)

\* A group break that an unnamed entry does not keep pending.
prevBlankLineAfter_Dropped(frame, grouped, thisName) ==
  IF grouped THEN FALSE ELSE frame.prevBlankLine

\* stack.prevBlankLine after Property(node): set to `thisName === null` when
\* the entry is in a new group, left alone otherwise.
prevBlankLineAfter(frame, grouped, thisName) ==
  IF grouped THEN thisName = NoName ELSE frame.prevBlankLine

\* stack.isValidOrderOverride(prevName, thisName) reads order.indexOf: with an
\* override that declares no order this is a TypeError.
OverrideThrows(frame) ==
  frame.override # NoOverride /\ Overrides[frame.override].order = NoOrder

\* A handler that does not make a reported entry the previous one.
Property_ReportedIsNotPrevious ==
  /\ Dispatch({"Property"})
  /\ pc' = pc + 1
  /\ UNCHANGED <<opts, events, pass, other>>
  /\ IF SkipsProperty(Node)
     THEN UNCHANGED <<stack, reports, thrown>>
     ELSE
       LET prevNode == Top.prevNode
           prevName == Top.prevName
           fixable == Fixable(Top)
           thisName == getPropertyName(Node)
           isBlankLineBetweenNodes ==
             Top.prevBlankLine
               \/ (opts.allowLineSeparatedGroups
                   /\ hasBlankLineBetweenNodes(Node, prevNode))
           grouped == opts.allowLineSeparatedGroups /\ isBlankLineBetweenNodes
           compares ==
             ~(grouped \/ prevName = NoName \/ thisName = NoName
                 \/ TooFewKeys(Top))
           throws == compares /\ OverrideThrows(Top)
           messageId ==
             IF ~compares \/ throws
             THEN ""
             ELSE Verdict(Top, prevName, thisName,
                          events[prevNode].shorthand, Node.shorthand)
       IN  /\ stack' = IF messageId # "" THEN stack ELSE SetTop(
                [Top EXCEPT !.prevNode = pc,
                            !.prevNameSkipped = (thisName = NoName),
                            !.prevName = IF thisName # NoName THEN thisName ELSE @,
                            !.prevBlankLine =
                               prevBlankLineAfter(Top, grouped, thisName)])
           /\ reports' =
                IF messageId = "" THEN reports
                ELSE Append(reports,
                       createReport(pc, prevNode, fixable, messageId, thisName, prevName,
                         IF messageId = "sortKeysOverride"
                         THEN Overrides[Top.override].message ELSE ""))
           /\ thrown' = IF throws THEN "TypeError" ELSE thrown

\* A handler whose report goes in front of the reports made so far.
Property_ReportsInFront ==
  /\ Dispatch({"Property"})
  /\ pc' = pc + 1
  /\ UNCHANGED <<opts, events, pass, other>>
  /\ IF SkipsProperty(Node)
     THEN UNCHANGED <<stack, reports, thrown>>
     ELSE
       LET prevNode == Top.prevNode
           prevName == Top.prevName
           fixable == Fixable(Top)
           thisName == getPropertyName(Node)
           isBlankLineBetweenNodes ==
             Top.prevBlankLine
               \/ (opts.allowLineSeparatedGroups
                   /\ hasBlankLineBetweenNodes(Node, prevNode))
           grouped == opts.allowLineSeparatedGroups /\ isBlankLineBetweenNodes
           compares ==
             ~(grouped \/ prevName = NoName \/ thisName = NoName
                 \/ TooFewKeys(Top))
           throws == compares /\ OverrideThrows(Top)
           messageId ==
             IF ~compares \/ throws
             THEN ""
             ELSE Verdict(Top, prevName, thisName,
                          events[prevNode].shorthand, Node.shorthand)
       IN  /\ stack' = SetTop(
                [Top EXCEPT !.prevNode = pc,
                            !.prevNameSkipped = (thisName = NoName),
                            !.prevName = IF thisName # NoName THEN thisName ELSE @,
                            !.prevBlankLine =
                               prevBlankLineAfter(Top, grouped, thisName)])
           /\ reports' =
                IF messageId = "" THEN reports
                ELSE <<createReport(pc, prevNode, fixable, messageId, thisName, prevName,
                         IF messageId = "sortKeysOverride"
                         THEN Overrides[Top.override].message ELSE "")>> \o reports
           /\ thrown' = IF throws THEN "TypeError" ELSE thrown

\* Property(node)
Property ==
  /\ Dispatch({"Property"})
  /\ pc' = pc + 1
  /\ UNCHANGED <<opts, events, pass, other>>
  /\ IF SkipsProperty(Node)
     THEN UNCHANGED <<stack, reports, thrown>>
     ELSE
       LET prevNode == Top.prevNode
           prevName == Top.prevName
           fixable == Fixable(Top)
           thisName == getPropertyName(Node)
           isBlankLineBetweenNodes ==
             Top.prevBlankLine
               \/ (opts.allowLineSeparatedGroups
                   /\ hasBlankLineBetweenNodes(Node, prevNode))
           grouped == opts.allowLineSeparatedGroups /\ isBlankLineBetweenNodes
           compares ==
             ~(grouped \/ prevName = NoName \/ thisName = NoName
                 \/ TooFewKeys(Top))
           throws == compares /\ OverrideThrows(Top)
           messageId ==
             IF ~compares \/ throws
             THEN ""
             ELSE Verdict(Top, prevName, thisName,
                          events[prevNode].shorthand, Node.shorthand)
       IN  /\ stack' = SetTop(
                [Top EXCEPT !.prevNode = pc,
                            !.prevNameSkipped = (thisName = NoName),
                            !.prevName = IF thisName # NoName THEN thisName ELSE @,
                            !.prevBlankLine =
                               prevBlankLineAfter(Top, grouped, thisName)])
           /\ reports' =
                IF messageId = "" THEN reports
                ELSE Append(reports,
                       createReport(pc, prevNode, fixable, messageId, thisName, prevName,
                         IF messageId = "sortKeysOverride"
                         THEN Overrides[Top.override].message ELSE ""))
           /\ thrown' = IF throws THEN "TypeError" ELSE thrown

\* ------------------------------------------------- reading the syntax tree

\* The indices in evs of the members of the object literal whose first member
\* (or exit) is at index i.
RECURSIVE MembersFrom(_, _)
MembersFrom(evs, i) ==
  IF evs[i].type = "ObjectExpression:exit" THEN <<>>
  ELSE <<i>> \o MembersFrom(evs, i + evs[i].size)

\* The indices of the members of the object literal at index o.
MembersOf(evs, o) == MembersFrom(evs, o + 1)

ObjectsIn(evs) == {o \in 1..Len(evs) : evs[o].type = "ObjectExpression"}

\* The index of the exit event of the object literal at index o.
ExitOf(evs, o) ==
  LET ms == MembersOf(evs, o)
  IN  IF ms = <<>> THEN o + 1 ELSE ms[Len(ms)] + evs[ms[Len(ms)]].size

\* --------------------------------------------------------------- the fixer

\* A span of the source text: node `node` itself (comment = 0), or the
\* comment-th comment before it.
Span(node, comment) == [node |-> node, comment |-> comment]

NoText == [node |-> NoNode, comment |-> 0, newline |-> FALSE]

\* sourceCode.getText(x) of the span x, followed by "\n" or not.
TextOf(span, newline) ==
  [node |-> span.node, comment |-> span.comment, newline |-> newline]

\* sourceCode.getCommentsBefore(node), in source order.
getCommentsBefore(evs, node) == [k \in 1..evs[node].comments |-> Span(node, k)]

\* The edits moveProperty pushes for the first n comments of fromNode.
RECURSIVE CommentEdits(_, _, _)
CommentEdits(thisComments, toNode, n) ==
  IF n = 0 THEN <<>>
  ELSE CommentEdits(thisComments, toNode, n - 1)
         \o <<[op |-> "insertTextBefore", target |-> Span(toNode, 0),
               text |-> TextOf(thisComments[n], TRUE)],
              [op |-> "remove", target |-> thisComments[n], text |-> NoText]>>

\* A move that leaves the comments where they are.
moveProperty_TextOnly(evs, fromNode, toNode) ==
  <<[op |-> "replaceText", target |-> Span(toNode, 0),
     text |-> TextOf(Span(fromNode, 0), FALSE)]>>

\* moveProperty(fromNode, toNode): the edits it pushes to `fixes`.
moveProperty(evs, fromNode, toNode) ==
  LET thisComments == getCommentsBefore(evs, fromNode)
  IN  CommentEdits(thisComments, toNode, Len(thisComments))
        \o <<[op |-> "replaceText", target |-> Span(toNode, 0),
              text |-> TextOf(Span(fromNode, 0), FALSE)]>>

\* The array `fixes` that fix(fixer) returns.
fixes(evs, node, prevNode) ==
  moveProperty(evs, node, prevNode) \o moveProperty(evs, prevNode, node)

\* seq with the elements at positions i and j exchanged.
Swap(seq, i, j) ==
  [k \in 1..Len(seq) |-> IF k = i THEN seq[j] ELSE IF k = j THEN seq[i] ELSE seq[k]]

\* The text after the edits of createFixer(context, node, prevNode) are applied:
\* the two nodes' texts (with the subtrees they hold) change places, each with
\* its comments; the blank lines, being outside the nodes' ranges, stay where
\* they are, and a comment removed from a line of its own leaves an empty line.
createFixer(evs, node, prevNode) ==
  LET o == CHOOSE x \in ObjectsIn(evs) :
             \E k \in 1..Len(MembersOf(evs, x)) : MembersOf(evs, x)[k] = node
      ms == MembersOf(evs, o)
      kn == CHOOSE k \in 1..Len(ms) : ms[k] = node
      kp == CHOOSE k \in 1..Len(ms) : ms[k] = prevNode
      endPrev == prevNode + evs[prevNode].size
      endNode == node + evs[node].size
      moved(from, to) ==
        <<[evs[from] EXCEPT !.gap = evs[to].gap \/ evs[to].comments > 0]>>
          \o SubSeq(evs, from + 1, from + evs[from].size - 1)
  IN  SubSeq(evs, 1, o - 1)
        \o <<[evs[o] EXCEPT !.properties = Swap(@, kn, kp)]>>
        \o SubSeq(evs, o + 1, prevNode - 1)
        \o moved(node, prevNode)
        \o SubSeq(evs, endPrev, node - 1)
        \o moved(prevNode, node)
        \o SubSeq(evs, endNode, Len(evs))

\* The host applies the fix of one report and lints the fixed text.
ApplyFix ==
  /\ thrown = ""
  /\ pass = 1
  /\ pc > Len(events)
  /\ \E i \in 1..Len(reports) :
       /\ reports[i].fix
       /\ events' = createFixer(events, reports[i].fixNode, reports[i].fixPrevNode)
  /\ pass' = 2
  /\ pc' = 1
  /\ stack' = <<>>
  /\ reports' = <<>>
  /\ UNCHANGED <<opts, thrown, other>>

\* ------------------------------------------------------------------ inputs

\* Most that minKeys is set to.
MaxMinKeys == 3

\* minKeys when the option is not given (schema: minimum 2, default 2).
DefaultMinKeys == 2

DefaultOptions ==
  [order |-> "asc", insensitive |-> FALSE, natural |-> FALSE,
   minKeys |-> DefaultMinKeys, allowLineSeparatedGroups |-> FALSE,
   ignoreSingleLine |-> FALSE, allCaps |-> "ignore", shorthand |-> "ignore",
   overrides |-> <<>>]

\* An item of options.overrides.  properties = <<>>, esquery = FALSE and
\* message = "" stand for an absent key.
Override(order, properties, esquery, ignore, message) ==
  [order |-> order, properties |-> properties, esquery |-> esquery,
   ignore |-> ignore, message |-> message]

\* Sequences over S of lengths lo..hi.
SeqsOf(S, lo, hi) == UNION {[1..n -> S] : n \in lo..hi}

Named(name, shorthand) ==
  Member(PropertyNode("ObjectExpression", name, FALSE, shorthand, FALSE), <<>>)

\* {[a + b]: 1}: a computed key without a static name.
Dynamic == Member(PropertyNode("ObjectExpression", NoName, TRUE, FALSE, FALSE), <<>>)

\* {...z}
Spread == Member(SpreadNode("SpreadElement", "ObjectExpression"), <<>>)

\* A member with the events of its value's subtree.
WithValue(member, sub) == [member EXCEPT !.sub = sub]

\* function ({a, b}) {} and let {a, b} = x: the properties of a destructuring
\* pattern.
PatternEvents ==
  <<PropertyNode("ObjectPattern", sb, FALSE, TRUE, FALSE),
    PropertyNode("ObjectPattern", sa, FALSE, TRUE, FALSE)>>

\* [...z] and f(...z): a spread whose parent is not an object literal.
ArraySpreadEvents == <<SpreadNode("SpreadElement", "ArrayExpression")>>

\* The events of a file that holds one top-level object literal.
FileOf(prefix, members, oneLine, matches) ==
  prefix \o ObjectEvents(members, NoParentProperty, oneLine, matches)

\* The rule is created with options o for a file whose events are e.
Input(o, e) == opts = o /\ events = e

\* Flat object literals under the eight base comparators, and under larger
\* values of minKeys.
BaseOptions ==
  {[DefaultOptions EXCEPT !.order = o, !.insensitive = i, !.natural = n,
                          !.ignoreSingleLine = s] :
     o \in {"asc", "desc"}, i \in BOOLEAN, n \in BOOLEAN, s \in BOOLEAN}
    \cup
  {[DefaultOptions EXCEPT !.order = o, !.minKeys = m, !.ignoreSingleLine = s] :
     o \in {"asc", "desc"}, m \in (DefaultMinKeys + 1)..MaxMinKeys, s \in BOOLEAN}

BaseMembers ==
  {Named(n, FALSE) : n \in {sa, sB, s2, s10}} \cup {Dynamic, Spread}

\* The literal is on one line or on several; where single lines are not exempt
\* the rule does not read which.
BaseInputs ==
  \E o \in BaseOptions, ms \in SeqsOf(BaseMembers, 1, MaxProps),
     l \in BOOLEAN :
     (l => o.ignoreSingleLine) /\ Input(o, FileOf(<<>>, ms, l, {}))

\* Flat object literals under the grouping options, with and without an
\* override that governs the literal.
GroupOverrides ==
  {<<>>, <<Override(<<sa>>, <<>>, TRUE, FALSE, "CUSTOM_MESSAGE")>>}

GroupOptions ==
  {[DefaultOptions EXCEPT !.order = o, !.allCaps = c, !.shorthand = h,
                          !.overrides = v] :
     o \in {"asc", "desc"}, c \in {"first", "last", "ignore"},
     h \in {"first", "last", "ignore"}, v \in GroupOverrides}

GroupMembers ==
  {Named(n, h) : n \in {sa, sB}, h \in BOOLEAN}
    \cup {Named(sb, FALSE), Dynamic}

GroupInputs ==
  \E o \in GroupOptions, ms \in SeqsOf(GroupMembers, 1, MaxProps) :
     Input(o, FileOf(<<>>, ms, FALSE, 1..Len(o.overrides)))

\* Object literals that are the value of a property of another one, under
\* overrides of the three kinds of scope: by the parent's key (properties), by
\* selector (esquery) and by the literal's own keys (neither).
ByParentBA == Override(<<sb, sa>>, <<sa>>, FALSE, FALSE, "CUSTOM_MESSAGE")

ByParentAB == Override(<<sa, sb>>, <<sa>>, FALSE, FALSE, "")

BySelectorAB == Override(<<sa, sb>>, <<>>, TRUE, FALSE, "CUSTOM_MESSAGE")

BySelectorB == Override(<<sb>>, <<>>, TRUE, FALSE, "")

ByKeysBA == Override(<<sb, sa>>, <<>>, FALSE, FALSE, "")

ByKeysAB == Override(<<sa, sb>>, <<>>, FALSE, FALSE, "")

ByKeysABC == Override(<<sa, sb, sc>>, <<>>, FALSE, FALSE, "CUSTOM_MESSAGE")

\* overrides that suspend the checks
ByParentIgnore == Override(NoOrder, <<sa>>, FALSE, TRUE, "")

BySelectorIgnore == Override(NoOrder, <<>>, TRUE, TRUE, "")

ByKeysIgnore == Override(<<sa, sb>>, <<>>, FALSE, TRUE, "")

\* overrides with neither an order nor ignore: true
ByParentOnly == Override(NoOrder, <<sa>>, FALSE, FALSE, "")

BySelectorOnly == Override(NoOrder, <<>>, TRUE, FALSE, "")

MessageOnly == Override(NoOrder, <<>>, FALSE, FALSE, "CUSTOM_MESSAGE")

OverrideLists ==
  {<<>>, <<ByParentBA>>, <<BySelectorAB>>, <<BySelectorB>>, <<ByKeysBA>>,
   <<ByParentBA, BySelectorAB>>, <<BySelectorAB, ByParentBA>>,
   <<ByParentBA, ByKeysBA>>, <<ByKeysBA, BySelectorAB>>,
   <<BySelectorB, BySelectorAB>>, <<ByParentAB, ByParentBA>>,
   <<ByKeysBA, BySelectorB, ByParentAB>>,
   <<ByParentIgnore>>, <<BySelectorIgnore>>, <<ByKeysIgnore>>,
   <<ByParentIgnore, BySelectorAB>>,
   <<ByParentOnly>>, <<BySelectorOnly>>, <<MessageOnly>>,
   <<ByKeysABC, ByKeysBA>>, <<ByKeysBA, ByKeysABC>>, <<ByKeysBA, ByKeysAB>>,
   <<ByKeysAB, ByKeysABC, ByKeysBA>>}

OverrideOptions == {[DefaultOptions EXCEPT !.overrides = v] : v \in OverrideLists}

InnerMembers == {Named(sa, FALSE), Named(sb, FALSE), Dynamic}

\* {a: ...}, {[a]: ...} and {[a + b]: ...}
OuterKeys ==
  {Named(sa, FALSE),
   Member(PropertyNode("ObjectExpression", sa, TRUE, FALSE, FALSE), <<>>),
   Dynamic}

\* The overrides whose selector matches the inner literal: none of them, all of
\* them, or one of them alone.
MatchSets(n) == {{}, 1..n} \cup {{i} : i \in 1..n}

OverrideInputs ==
  \E o \in OverrideOptions, k \in OuterKeys,
     ms \in SeqsOf(InnerMembers, 1, MaxProps) :
     \E matched \in MatchSets(Len(o.overrides)) :
        Input(o, FileOf(<<>>,
                   <<Named(sb, FALSE),
                     WithValue(k, ObjectEvents(ms, ParentOf(k.node), FALSE,
                          matched)),
                     Named(sa, FALSE)>>,
                   FALSE, {}))

\* Files with destructuring patterns and spreads outside object literals, and
\* object literals whose values hold them.
NestOptions ==
  {DefaultOptions, [DefaultOptions EXCEPT !.order = "desc"]}

NestMembers ==
  {Named(sa, FALSE), Named(sb, FALSE),
   WithValue(Named(sb, FALSE), PatternEvents),
   WithValue(Named(sa, FALSE), ArraySpreadEvents),
   WithValue(Dynamic, PatternEvents),
   Member(SpreadNode("ExperimentalSpreadProperty", "ObjectExpression"), <<>>)}

NestInputs ==
  \E o \in NestOptions, prefix \in {<<>>, PatternEvents, ArraySpreadEvents},
     ms \in SeqsOf(NestMembers, 1, MaxProps) :
     Input(o, FileOf(prefix, ms, FALSE, {}))

\* A member with a blank line between it and what precedes it.
Gapped(member) == [member EXCEPT !.node.gap = TRUE]

\* Flat object literals with blank lines, with allowLineSeparatedGroups on and
\* off.
GapOptions ==
  {[DefaultOptions EXCEPT !.order = o, !.allowLineSeparatedGroups = g] :
     o \in {"asc", "desc"}, g \in BOOLEAN}

GapMembers ==
  LET entries == {Named(sa, FALSE), Named(sb, FALSE), Named(sc, FALSE), Dynamic}
  IN  entries \cup {Gapped(m) : m \in entries} \cup {Spread}

GapInputs ==
  \E o \in GapOptions, ms \in SeqsOf(GapMembers, 1, MaxProps) :
     Input(o, FileOf(<<>>, ms, FALSE, {}))

\* The longest object literal with runs of unnamed entries after a blank line.
MaxRun == 4

RunMembers == {Named(sa, FALSE), Named(sb, FALSE), Dynamic, Gapped(Dynamic)}

RunInputs ==
  \E o \in GapOptions, ms \in SeqsOf(RunMembers, MaxProps + 1, MaxRun) :
     Input(o, FileOf(<<>>, ms, FALSE, {}))

\* An object literal in the value of an entry of another one, each on one line
\* or on several; what lies in a single line is on a single line.
LineOptions ==
  {[DefaultOptions EXCEPT !.order = o, !.ignoreSingleLine = l] :
     o \in {"asc", "desc"}, l \in BOOLEAN}

LineInputs ==
  \E o \in LineOptions, outerLine \in BOOLEAN, innerLine \in BOOLEAN,
     ms \in SeqsOf({Named(sa, FALSE), Named(sb, FALSE)}, 2, 2),
     z \in {sa, sc} :
     /\ outerLine => innerLine
     /\ Input(o, FileOf(<<>>,
                  <<WithValue(Named(sb, FALSE),
                      ObjectEvents(ms, ParentOf(Named(sb, FALSE).node), innerLine, {})),
                    Named(z, FALSE)>>,
                  outerLine, {}))

\* Flat object literals under constant grouping, with names that have no
\* letter at all.
sb_ == <<98, 95>>

CapsNames == {sb_, sc, sC, sDollar, sUnder, s1, sEmpty}

CapsOptions ==
  {[DefaultOptions EXCEPT !.insensitive = i, !.natural = n, !.allCaps = c] :
     i \in BOOLEAN, n \in BOOLEAN, c \in {"first", "last"}}

CapsInputs ==
  \E o \in CapsOptions, ms \in SeqsOf({Named(n, FALSE) : n \in CapsNames}, 2, MaxProps) :
     Input(o, FileOf(<<>>, ms, FALSE, {}))

\* An object literal in the value of the second of three entries, each of the
\* literals in order or not.
DeepInputs ==
  \E o \in NestOptions, x \in {sa, sb, sc}, y \in {sa, sb, sc}, z \in {sa, sb, sc},
     ms \in SeqsOf({Named(sa, FALSE), Named(sb, FALSE)}, 2, 2) :
     Input(o, FileOf(<<>>,
                <<Named(x, FALSE),
                  WithValue(Named(y, FALSE),
                    ObjectEvents(ms, ParentOf(Named(y, FALSE).node), FALSE, {})),
                  Named(z, FALSE)>>,
                FALSE, {}))

\* Flat object literals with computed keys: {[a]: 1}, {['a']: 1} and
\* {[a + b]: 1} among plain ones.
Computed(key) ==
  Member(KeyedNode("ObjectExpression", key, TRUE, FALSE, FALSE), <<>>)

ComputedMembers ==
  {Named(sa, FALSE), Named(sb, FALSE), Named(sc, FALSE), Computed(IdentifierKey(sa)),
   Computed(IdentifierKey(sb)), Computed(LiteralKey(sa)), Dynamic}

ComputedInputs ==
  \E o \in NestOptions, ms \in SeqsOf(ComputedMembers, 2, MaxProps) :
     Input(o, FileOf(<<>>, ms, FALSE, {}))

\* Most comments right before one entry.
MaxComments == 2

\* A member with n line comments, each on a line of its own, right before it.
Commented(member, n) == [member EXCEPT !.node.comments = n]

\* Flat object literals whose entries have comments before them.
CommentMembers ==
  {Commented(Named(n, FALSE), k) : n \in {sa, sb}, k \in 0..MaxComments}

CommentInputs ==
  \E o \in GapOptions, ms \in SeqsOf(CommentMembers, 2, MaxProps) :
     Input(o, FileOf(<<>>, ms, FALSE, {}))

\* Pairs of names under the eight base comparators: names that differ by
\* case only, by leading zeros only, and after a run of digits only.
s01 == <<48, 49>>

s0a == <<48, 97>>

s0b == <<48, 98>>

sA == <<65>>

s11 == <<49, 49>>

OrderNames == {sEmpty, s1, s01, s2, s10, s11, s0a, s0b, sa, sA, sB, sUnder}

OrderOptions ==
  {[DefaultOptions EXCEPT !.order = o, !.insensitive = i, !.natural = n] :
     o \in {"asc", "desc"}, i \in BOOLEAN, n \in BOOLEAN}

OrderInputs ==
  \E o \in OrderOptions, x \in OrderNames, y \in OrderNames :
     Input(o, FileOf(<<>>, <<Named(x, FALSE), Named(y, FALSE)>>, FALSE, {}))

\* A literal that an override with ignore: true governs, by the key a it is
\* the value of or by a selector, and a literal nested in it, on one line or on
\* several.
IgnoreLists ==
  {<<ByParentIgnore>>, <<ByParentIgnore, ByKeysBA>>, <<BySelectorIgnore>>}

IgnoreOptions ==
  {[DefaultOptions EXCEPT !.overrides = v, !.order = o, !.ignoreSingleLine = l] :
     v \in IgnoreLists, o \in {"asc", "desc"}, l \in BOOLEAN}

IgnoreInputs ==
  \E o \in IgnoreOptions, line \in BOOLEAN,
     ms \in SeqsOf({Named(sa, FALSE), Named(sb, FALSE)}, 2, 2),
     y \in {sb, sc}, z \in {sa, sc} :
     Input(o, FileOf(<<>>,
                <<WithValue(Named(sa, FALSE),
                    ObjectEvents(
                      <<WithValue(Named(y, FALSE),
                          ObjectEvents(ms, ParentOf(Named(y, FALSE).node), line, {})),
                        Named(z, FALSE)>>,
                      ParentOf(Named(sa, FALSE).node), line, {1})),
                  Named(sb, FALSE)>>,
                FALSE, {}))

\* Flat object literals with the key 'a,b' among a, b and c, under unscoped
\* overrides that declare a, b and c as separate names.
sACommaB == <<97, 44, 98>>

CommaOptions ==
  {[DefaultOptions EXCEPT !.overrides = v, !.minKeys = n] :
     v \in {<<ByKeysAB>>, <<ByKeysIgnore>>, <<ByKeysABC>>}, n \in 1..2}

CommaMembers ==
  {Named(sACommaB, FALSE), Named(sa, FALSE), Named(sb, FALSE), Named(sc, FALSE)}

CommaInputs ==
  \E o \in CommaOptions, ms \in SeqsOf(CommaMembers, 1, MaxProps) :
     Input(o, FileOf(<<>>, ms, FALSE, {}))

Inputs ==
  BaseInputs \/ GroupInputs \/ OverrideInputs \/ NestInputs \/ GapInputs
    \/ RunInputs \/ LineInputs \/ OrderInputs \/ CommentInputs \/ CapsInputs
    \/ DeepInputs \/ ComputedInputs \/ IgnoreInputs \/ CommaInputs

\* create(context) reads override.order.concat() of every override without a
\* scope: with one that declares no order this is a TypeError.
CreateThrows ==
  \E i \in 1..Len(Overrides) :
     /\ ~Overrides[i].esquery
     /\ Overrides[i].properties = <<>>
     /\ Overrides[i].order = NoOrder

\* What one call of create(context) closes over, with the place its traversal
\* has reached.
Created(o, e) ==
  [opts |-> o, events |-> e, pc |-> 1, stack |-> <<>>, reports |-> <<>>,
   thrown |-> ""]

\* The rule is instantiated once only.
NoTraversal == Created(DefaultOptions, <<>>)

Init ==
  /\ Inputs
  /\ pc = 1
  /\ stack = <<>>
  /\ reports = <<>>
  /\ pass = 1
  /\ thrown = IF CreateThrows THEN "TypeError" ELSE ""
  /\ other = NoTraversal

Next ==
  \/ ObjectExpression
  \/ Property
  \/ SpreadElement
  \/ ObjectExpressionExit

Spec == Init /\ [][Next]_vars

\* The lint of the given text followed by the lint of the text one fix makes.
NextFix == Next \/ ApplyFix

\* ------------------------------------------------------- two instantiations

\* Most members of an object literal of a file linted along with another.
MaxPairProps == 2

PairOptions == {DefaultOptions, [DefaultOptions EXCEPT !.order = "desc"]}

PairFiles ==
  {FileOf(<<>>, ms, FALSE, {}) :
     ms \in SeqsOf({Named(sa, FALSE), Named(sB, FALSE), Spread}, 1, MaxPairProps)}

\* Instantiations that keep one stack between them.
Switch_SharedStack ==
  /\ other # NoTraversal
  /\ other' = [opts |-> opts, events |-> events, pc |-> pc, stack |-> other.stack,
               reports |-> reports, thrown |-> thrown]
  /\ opts' = other.opts
  /\ events' = other.events
  /\ pc' = other.pc
  /\ reports' = other.reports
  /\ thrown' = other.thrown
  /\ UNCHANGED <<stack, pass>>

\* The host hands the next node event to the other instantiation: what
\* create(context) closes over (the options, the override maps, `stack`) and
\* the context's reports are those of the other one from now on.
Switch ==
  /\ other # NoTraversal
  /\ other' = [opts |-> opts, events |-> events, pc |-> pc, stack |-> stack,
               reports |-> reports, thrown |-> thrown]
  /\ opts' = other.opts
  /\ events' = other.events
  /\ pc' = other.pc
  /\ stack' = other.stack
  /\ reports' = other.reports
  /\ thrown' = other.thrown
  /\ UNCHANGED pass

\* One file linted alone, or two files linted with their node events
\* interleaved.
InitPair ==
  /\ \E o \in PairOptions, e \in PairFiles : Input(o, e)
  /\ pc = 1
  /\ stack = <<>>
  /\ reports = <<>>
  /\ pass = 1
  /\ thrown = ""
  /\ other \in {NoTraversal} \cup {Created(o, e) : o \in PairOptions, e \in PairFiles}

NextPair == Next \/ Switch

SpecPair == InitPair /\ [][NextPair]_vars

\* ------------------------------------------------- the tree, as the claims read it

\* The members of object literals: properties and spreads.
IsEntry(i) == events[i].type = "Property" /\ events[i].parentType = "ObjectExpression"

IsSpread(i) ==
  events[i].type \in {"SpreadElement", "ExperimentalSpreadProperty"}
    /\ events[i].parentType = "ObjectExpression"

IsNamed(i) == IsEntry(i) /\ events[i].name # NoName

\* The object literals that hold event i, and the innermost of them.
Enclosing(i) == {o \in ObjectsIn(events) : o < i /\ ExitOf(events, o) > i}

ObjectOf(i) == CHOOSE o \in Enclosing(i) : \A x \in Enclosing(i) : x <= o

\* The position of member i in its object literal.
PositionOf(i) ==
  LET ms == MembersOf(events, ObjectOf(i))
  IN  CHOOSE k \in 1..Len(ms) : ms[k] = i

\* The member right before member i, NoNode for the first member.
MemberBefore(i) ==
  IF PositionOf(i) = 1 THEN NoNode
  ELSE MembersOf(events, ObjectOf(i))[PositionOf(i) - 1]

\* Walking back from position k: the first named entry met before a spread or
\* the start of the object literal, NoNode when there is none.
RECURSIVE LastNamed(_, _)
LastNamed(ms, k) ==
  IF k = 0 THEN NoNode
  ELSE IF ~IsEntry(ms[k]) THEN NoNode
  ELSE IF events[ms[k]].name # NoName THEN ms[k]
  ELSE LastNamed(ms, k - 1)

\* The most recent named entry before entry i since the start of its object
\* literal or the last spread.
PrevNamed(i) == LastNamed(MembersOf(events, ObjectOf(i)), PositionOf(i) - 1)

SpecFix == Init /\ [][NextFix]_vars

\* ------------------------------------------------- the claims' vocabulary

\* The object literal is on one line, or lies in one that is, and single lines
\* are exempt.
Exempt(o) ==
  opts.ignoreSingleLine
    /\ \E a \in Enclosing(o) \cup {o} : events[a].oneLine

\* An override with ignore: true governs the object literal.
Suspended(o) ==
  ResolveOverride(events[o]) # NoOverride
    /\ Overrides[ResolveOverride(events[o])].ignore

\* The entries of the object literal are compared at all.
Checked(o) ==
  ~Exempt(o) /\ ~Suspended(o) /\ Len(events[o].properties) >= opts.minKeys

\* The indices of the reports made at node i.
ReportsAt(i) == {r \in 1..Len(reports) : reports[r].node = i}

\* The named entries already visited that have a named entry to be compared with.
Compared ==
  {t \in 1..(pc - 1) : IsNamed(t) /\ PrevNamed(t) # NoNode}

\* Every event of the file has been dispatched.
AtEnd == pc > Len(events)

\* The reason a report gives: the override's own message stands for
\* sortKeysOverride.
Reason(report) ==
  IF report.message # "" THEN "sortKeysOverride" ELSE report.messageId

\* The conditions of C1 on the object literal o other than the single-line
\* exemption.
BasePolicy(o) ==
  /\ ResolveOverride(events[o]) = NoOverride
  /\ opts.allCaps = "ignore"
  /\ opts.shorthand = "ignore"
  /\ ~opts.allowLineSeparatedGroups
  /\ Len(events[o].properties) >= opts.minKeys

\* The configured base comparator, looked up by the three options.
BaseAccepts(p, t) ==
  isValidOrders(opts.order, opts.insensitive, opts.natural,
                events[p].name, events[t].name)

\* Entry t is reported, once, as standing before the entry p.
ReportedAgainst(t, p) ==
  /\ Cardinality(ReportsAt(t)) = 1
  /\ \A r \in ReportsAt(t) :
       reports[r].thisName = events[t].name /\ reports[r].prevName = events[p].name

\* C1 as stated: in a frame with no governing override, with both groupings set
\* to ignore, blank-line grouping off and at least minKeys entries, a named
\* entry t with a most recent named entry p since the frame start or the last
\* spread is reported if and only if the base comparator rejects (p, t), and the
\* report names t and p.
C1_ReportedIffBaseRejects ==
  AtEnd => \A t \in Compared :
     BasePolicy(ObjectOf(t)) =>
       IF BaseAccepts(PrevNamed(t), t)
       THEN ReportsAt(t) = {}
       ELSE ReportedAgainst(t, PrevNamed(t))

\* C1 as amended: the same, in a frame that the single-line exemption does not
\* cover (ignoreSingleLine off, or neither the object literal nor one that holds
\* it is on a single line).
C1_ReportedIffBaseRejectsUnlessExempt ==
  AtEnd => \A t \in Compared :
     (BasePolicy(ObjectOf(t)) /\ ~Exempt(ObjectOf(t))) =>
       IF BaseAccepts(PrevNamed(t), t)
       THEN ReportsAt(t) = {}
       ELSE ReportedAgainst(t, PrevNamed(t))

\* An entry is reported under the base policy although an unnamed entry stands
\* between it and the entry it is compared with.
C1_Witness ==
  \E t \in Compared :
     /\ BasePolicy(ObjectOf(t))
     /\ ~Exempt(ObjectOf(t))
     /\ MemberBefore(t) # PrevNamed(t)
     /\ ~BaseAccepts(PrevNamed(t), t)
     /\ ReportedAgainst(t, PrevNamed(t))

LastSpreadBefore(i) ==
  LET ms == MembersOf(events, ObjectOf(i))
      before == {k \in 1..(PositionOf(i) - 1) : IsSpread(ms[k])}
  IN  IF before = {} THEN NoNode
      ELSE ms[CHOOSE k \in before : \A j \in before : j <= k]

\* C3: after a spread that is a member of an object literal the frame holds no
\* previous entry; an entry with no named entry between the spread and itself
\* is not reported; every report is relative to an entry that follows the last
\* spread; and under the base policy the entries after the spread are still
\* reported when the base comparator rejects them.
C3_SpreadRestartsComparison ==
  /\ (pc > 1 /\ IsSpread(pc - 1)) =>
       (Top.prevName = NoName /\ Top.prevNode = NoNode /\ ~Top.prevNameSkipped)
  /\ AtEnd => \A t \in 1..(pc - 1) :
       (IsEntry(t) /\ PrevNamed(t) = NoNode) => ReportsAt(t) = {}
  /\ \A r \in 1..Len(reports) :
       LET t == reports[r].node
       IN  /\ PrevNamed(t) > LastSpreadBefore(t)
           /\ reports[r].prevName = events[PrevNamed(t)].name
           /\ reports[r].fix => reports[r].fixPrevNode > LastSpreadBefore(t)
  /\ AtEnd => \A t \in Compared :
       (BasePolicy(ObjectOf(t)) /\ ~Exempt(ObjectOf(t))
          /\ LastSpreadBefore(t) # NoNode /\ ~BaseAccepts(PrevNamed(t), t))
       => ReportsAt(t) # {}

\* A named entry that follows a spread is not reported although the base
\* comparator rejects it against the named entry before the spread.
C3_Witness ==
  \E t \in 1..(pc - 1) :
     /\ IsNamed(t)
     /\ PositionOf(t) = 3
     /\ LET ms == MembersOf(events, ObjectOf(t))
        IN  /\ IsNamed(ms[1]) /\ IsSpread(ms[2])
            /\ BasePolicy(ObjectOf(t)) /\ ~Exempt(ObjectOf(t))
            /\ ~BaseAccepts(ms[1], t)
            /\ ReportsAt(t) = {}

\* C4: a report carries a fix if and only if the member right before the
\* reported entry in the same object literal is an entry with a static name; a
\* report after an unnamed entry is made, without a fix.
C4_FixIffPreviousNamed ==
  \A r \in 1..Len(reports) :
     LET t == reports[r].node
     IN  /\ MemberBefore(t) # NoNode
         /\ IsEntry(MemberBefore(t))
         /\ reports[r].fix <=> IsNamed(MemberBefore(t))
         /\ reports[r].fix =>
              (reports[r].fixNode = t /\ reports[r].fixPrevNode = MemberBefore(t))
         /\ ~reports[r].fix =>
              (reports[r].fixNode = NoNode /\ reports[r].fixPrevNode = NoNode)

\* An entry that follows an unnamed entry is reported without a fix.
C4_Witness ==
  \E r \in 1..Len(reports) :
     /\ ~reports[r].fix
     /\ IsEntry(MemberBefore(reports[r].node))
     /\ ~IsNamed(MemberBefore(reports[r].node))

\* What Property decides for the entry t compared with the named entry p: the
\* messageId of the report, "" for none.
PairVerdict(p, t) ==
  Verdict([override |-> ResolveOverride(events[ObjectOf(t)])],
          events[p].name, events[t].name, events[p].shorthand, events[t].shorthand)

\* C5 as stated: no report is made at, or relative to, an unnamed entry, and an
\* unnamed entry does not interrupt the ordering: a named entry is reported
\* exactly when the comparison with the last named entry before it fails.
C5_UnnamedEntriesAreSkipped ==
  /\ \A r \in 1..Len(reports) :
       /\ IsNamed(reports[r].node)
       /\ reports[r].prevName # NoName
       /\ reports[r].fix => IsNamed(reports[r].fixPrevNode)
  /\ AtEnd => \A t \in Compared :
       (Checked(ObjectOf(t)) /\ ~opts.allowLineSeparatedGroups) =>
         (ReportsAt(t) # {} <=> PairVerdict(PrevNamed(t), t) # "")

\* The text of the one object literal of the file has two members.
TwoEntries ==
  \A o \in ObjectsIn(events) : Len(events[o].properties) = 2

\* C6 as stated: when the fix of a violation in a two-entry object literal is
\* applied and the fixed text is linted, nothing is reported for the pair.
C6_FixedPairIsNotReported ==
  (pass = 2 /\ AtEnd /\ TwoEntries) => reports = <<>>

\* The verdict of the first of the four predicates that gives one.
FirstVerdict(p, t) ==
  LET v == ResolveOverride(events[ObjectOf(t)])
      a == events[p].name
      b == events[t].name
      byOverride == IF v = NoOverride THEN "null"
                    ELSE validCustomOrderComparator(Overrides[v].order, a, b)
      byAllCaps == isValidOrderAllCaps(opts.allCaps, a, b)
      byShorthand ==
        isValidOrderShorthand(opts.shorthand, events[p].shorthand, events[t].shorthand)
  IN  IF byOverride # "null" THEN byOverride
      ELSE IF byAllCaps # "null" THEN byAllCaps
      ELSE IF byShorthand # "null" THEN byShorthand
      ELSE Tri(BaseAccepts(p, t))

\* C7 as stated: for a named entry compared with the named entry right before
\* it, the first predicate in the order override, constant-grouping,
\* shorthand-grouping, base comparator that gives a verdict decides alone
\* whether the entry is reported.
C7_FirstVerdictDecides ==
  AtEnd => \A t \in Compared :
     (Checked(ObjectOf(t)) /\ ~opts.allowLineSeparatedGroups
        /\ MemberBefore(t) = PrevNamed(t)) =>
       (ReportsAt(t) # {} <=> FirstVerdict(PrevNamed(t), t) = "false")

\* The override comparator's verdict on the names of p and t in the frame of t.
OverrideVerdict(p, t) ==
  LET v == ResolveOverride(events[ObjectOf(t)])
  IN  IF v = NoOverride THEN "null"
      ELSE validCustomOrderComparator(Overrides[v].order,
                                      events[p].name, events[t].name)

AllCapsVerdict(p, t) ==
  isValidOrderAllCaps(opts.allCaps, events[p].name, events[t].name)

\* C8: an entry is reported at most once and with one reason; a pair the
\* override comparator rejects is reported as an override violation whatever
\* the groupings and the base comparator say, a pair it gives no verdict on and
\* constant-grouping rejects is reported as a constant-grouping violation, and
\* each reason is given only when the predicates before it did not reject.
C8_ReasonByPriority ==
  AtEnd =>
    /\ \A t \in 1..(pc - 1) : Cardinality(ReportsAt(t)) <= 1
    /\ \A r \in 1..Len(reports) :
         LET t == reports[r].node
             p == PrevNamed(t)
             reason == Reason(reports[r])
         IN  /\ p # NoNode
             /\ reason \in {"sortKeysOverride", "sortKeysAllCaps",
                            "sortKeysShorthand", "sortKeys"}
             /\ (reason = "sortKeysOverride") <=> (OverrideVerdict(p, t) = "false")
             /\ OverrideVerdict(p, t) # "true"
             /\ (reason = "sortKeysAllCaps") <=>
                  (OverrideVerdict(p, t) = "null" /\ AllCapsVerdict(p, t) = "false")
             /\ (reason = "sortKeys") => ~BaseAccepts(p, t)
    /\ \A t \in Compared :
         (Checked(ObjectOf(t)) /\ ~opts.allowLineSeparatedGroups
            /\ (OverrideVerdict(PrevNamed(t), t) = "false"
                \/ (OverrideVerdict(PrevNamed(t), t) = "null"
                    /\ AllCapsVerdict(PrevNamed(t), t) = "false")))
         => ReportsAt(t) # {}

\* A pair is reported as a constant-grouping violation in a frame an override
\* governs, although the base comparator accepts it.
C8_Witness ==
  \E r \in 1..Len(reports) :
     LET t == reports[r].node
     IN  /\ Reason(reports[r]) = "sortKeysAllCaps"
         /\ ResolveOverride(events[ObjectOf(t)]) # NoOverride
         /\ BaseAccepts(PrevNamed(t), t)

\* The object literals entered and not yet left, outermost first: the k-th is
\* the one the k-th frame of the stack was pushed for.
OpenObjects ==
  {o \in ObjectsIn(events) : o < pc /\ ExitOf(events, o) >= pc}

OpenAt(k) ==
  CHOOSE o \in OpenObjects : Cardinality({x \in OpenObjects : x <= o}) = k

\* The overrides scoped by `properties` that list the key the literal is the
\* value of.
ParentHits(o) ==
  {i \in 1..Len(Overrides) :
     /\ events[o].parent.type = "Property"
     /\ ~events[o].parent.computed
     /\ \E k \in 1..Len(Overrides[i].properties) :
          Overrides[i].properties[k] = events[o].parent.keyName}

\* The overrides scoped by a selector that matches the literal.
SelectorHits(o) ==
  {i \in 1..Len(Overrides) : Overrides[i].esquery /\ i \in events[o].matches}

\* The overrides with no scope whose order holds the literal's static names.
KeyHits(o) ==
  {i \in 1..Len(Overrides) :
     /\ ~Overrides[i].esquery
     /\ Overrides[i].properties = <<>>
     /\ Join(SortStrings(StaticNames(events[o]))) \in OtherKeys(i)}

\* C9: the one override of a frame is chosen by precedence: one keyed by the
\* enclosing entry's name if there is one, otherwise one whose selector
\* matches, otherwise the key-subset match (the one of the shortest order),
\* and none when nothing matches.
C9_OverrideByPrecedence ==
  /\ Len(stack) = Cardinality(OpenObjects)
  /\ \A k \in 1..Len(stack) :
       LET o == OpenAt(k)
           v == stack[k].override
       IN  /\ v = NoOverride \/ v \in 1..Len(Overrides)
           /\ ParentHits(o) # {} => v \in ParentHits(o)
           /\ (ParentHits(o) = {} /\ SelectorHits(o) # {}) => v \in SelectorHits(o)
           /\ (ParentHits(o) = {} /\ SelectorHits(o) = {} /\ KeyHits(o) # {}) =>
                /\ v \in KeyHits(o)
                /\ \A j \in KeyHits(o) :
                     Len(Overrides[v].order) <= Len(Overrides[j].order)
           /\ (ParentHits(o) = {} /\ SelectorHits(o) = {} /\ KeyHits(o) = {}) =>
                v = NoOverride

\* A literal that an override keyed by its parent and another one by selector
\* both match has a frame.
C9_Witness ==
  \E k \in 1..Len(stack) :
     /\ k \in 1..Cardinality(OpenObjects)
     /\ ParentHits(OpenAt(k)) # {}
     /\ SelectorHits(OpenAt(k)) \ ParentHits(OpenAt(k)) # {}
     /\ stack[k].override \in ParentHits(OpenAt(k))

\* x is one of the names of the order.
InOrder(order, x) == \E k \in 1..Len(order) : order[k] = x

\* The first position of x in the order.
FirstAt(order, x) ==
  CHOOSE k \in 1..Len(order) :
     order[k] = x /\ \A j \in 1..(k - 1) : order[j] # x

\* The entries compared in a frame an override with an order governs.
Governed ==
  {t \in Compared :
     /\ Checked(ObjectOf(t))
     /\ ~opts.allowLineSeparatedGroups
     /\ ResolveOverride(events[ObjectOf(t)]) # NoOverride}

\* C10: under an override with an explicit order, a pair (a, b) with both names
\* in the order is reported (as an override violation) iff a comes after b in
\* it; with only a in the order it is not reported; with only b in the order it
\* is reported as an override violation; with neither in the order no override
\* violation is reported and the groupings and the base comparator decide.
C10_OverrideComparator ==
  AtEnd => \A t \in Governed :
     LET p == PrevNamed(t)
         order == Overrides[ResolveOverride(events[ObjectOf(t)])].order
         a == events[p].name
         b == events[t].name
         asOverride == \E r \in ReportsAt(t) : Reason(reports[r]) = "sortKeysOverride"
     IN  /\ (InOrder(order, a) /\ InOrder(order, b)) =>
              /\ ReportsAt(t) # {} <=> FirstAt(order, a) > FirstAt(order, b)
              /\ ReportsAt(t) # {} => asOverride
         /\ (InOrder(order, a) /\ ~InOrder(order, b)) => ReportsAt(t) = {}
         /\ (~InOrder(order, a) /\ InOrder(order, b)) => asOverride
         /\ (~InOrder(order, a) /\ ~InOrder(order, b)) =>
              /\ ~asOverride
              /\ MemberBefore(t) = p =>
                   (ReportsAt(t) # {} <=>
                      Verdict([override |-> NoOverride], a, b,
                              events[p].shorthand, events[t].shorthand) # "")

\* A pair of which only the second name is in the order is reported although
\* the base comparator accepts it.
C10_Witness ==
  /\ AtEnd
  /\ \E t \in Governed :
       LET order == Overrides[ResolveOverride(events[ObjectOf(t)])].order
       IN  /\ ~InOrder(order, events[PrevNamed(t)].name)
           /\ InOrder(order, events[t].name)
           /\ BaseAccepts(PrevNamed(t), t)
           /\ ReportsAt(t) # {}

\* The set of the static names of the entries of the object literal o.
NameSet(o) ==
  {events[o].properties[k] : k \in 1..Len(events[o].properties)} \ {NoName}

\* The overrides with no scope whose declared order holds every static name of
\* the literal o, when these names are at least minKeys.
SubsetHits(o) ==
  {i \in 1..Len(Overrides) :
     /\ ~Overrides[i].esquery
     /\ Overrides[i].properties = <<>>
     /\ Cardinality(NameSet(o)) >= opts.minKeys
     /\ \A x \in NameSet(o) : InOrder(Overrides[i].order, x)}

\* C11 as stated: a literal no parent-key and no selector override applies to
\* is governed by an unscoped override whenever the set of its static names
\* has at least minKeys elements and lies within that override's order, and by
\* no override when no unscoped override's order holds that set.
C11_UnscopedOverrideBySubset ==
  \A k \in 1..Len(stack) :
     LET o == OpenAt(k)
     IN  (ParentHits(o) = {} /\ SelectorHits(o) = {}) =>
           /\ SubsetHits(o) # {} => stack[k].override \in SubsetHits(o)
           /\ SubsetHits(o) = {} => stack[k].override = NoOverride

\* The value of the entry i is an object literal that an override with ignore
\* governs.
HoldsSuspended(i) ==
  /\ events[i].size > 1
  /\ events[i + 1].type = "ObjectExpression"
  /\ Suspended(i + 1)

\* C12: no report is made at an entry of an object literal that an override
\* with ignore: true governs; the entries of the enclosing literal, the one
\* holding the ignored literal included, are compared as the base comparator
\* says.
C12_IgnoreSuspendsOnlyItsNode ==
  /\ \A r \in 1..Len(reports) : ~Suspended(ObjectOf(reports[r].node))
  /\ AtEnd => \A t \in Compared :
       (BasePolicy(ObjectOf(t)) /\ ~Exempt(ObjectOf(t))
          /\ (HoldsSuspended(t) \/ HoldsSuspended(PrevNamed(t))))
       => (ReportsAt(t) # {} <=> ~BaseAccepts(PrevNamed(t), t))

\* An ignored literal with two entries the base comparator rejects is not
\* reported, and the entry that holds it is.
C12_Witness ==
  /\ AtEnd
  /\ \E t \in Compared :
       /\ Suspended(ObjectOf(t))
       /\ Len(events[ObjectOf(t)].properties) >= opts.minKeys
       /\ ~BaseAccepts(PrevNamed(t), t)
       /\ ReportsAt(t) = {}
       /\ \E h \in Compared : HoldsSuspended(h) /\ h + 1 = ObjectOf(t) /\ ReportsAt(h) # {}

\* A blank line separates the entry i from the entry processed before it in
\* the same object literal.
GapAt(i) ==
  /\ IsEntry(i)
  /\ events[i].gap
  /\ MemberBefore(i) # NoNode
  /\ IsEntry(MemberBefore(i))

\* A group boundary lies between the entries p and t of one object literal.
BrokenBetween(p, t) == \E i \in (p + 1)..t : ObjectOf(i) = ObjectOf(t) /\ GapAt(i)

\* The conditions of C1 on the object literal o without the one on blank-line
\* grouping.
FlatPolicy(o) ==
  /\ ResolveOverride(events[o]) = NoOverride
  /\ opts.allCaps = "ignore"
  /\ opts.shorthand = "ignore"
  /\ ~Exempt(o)
  /\ Len(events[o].properties) >= opts.minKeys

\* C13: with allowLineSeparatedGroups an entry that a blank line separates from
\* the entry before it starts a new group: no report is made across a group
\* boundary, and the entry is what the next one is compared with.  Without
\* the option a blank line changes nothing: the base comparator alone decides.
C13_BlankLineStartsGroup ==
  /\ opts.allowLineSeparatedGroups =>
       \A r \in 1..Len(reports) :
          ~BrokenBetween(PrevNamed(reports[r].node), reports[r].node)
  /\ AtEnd => \A t \in Compared :
       FlatPolicy(ObjectOf(t)) =>
         (ReportsAt(t) # {} <=>
            /\ ~BaseAccepts(PrevNamed(t), t)
            /\ ~(opts.allowLineSeparatedGroups /\ BrokenBetween(PrevNamed(t), t)))

\* An entry after a blank line is not reported although the base comparator
\* rejects it after the entry before the blank line, and the entry after it
\* is reported against it.
C13_Witness ==
  /\ AtEnd
  /\ opts.allowLineSeparatedGroups
  /\ \E t \in Compared :
       /\ GapAt(t)
       /\ ~BaseAccepts(PrevNamed(t), t)
       /\ ReportsAt(t) = {}
       /\ \E n \in Compared :
            PrevNamed(n) = t /\ ~GapAt(n)
              /\ \E r \in ReportsAt(n) : reports[r].prevName = events[t].name

\* After the member m of an object literal a group break is pending: m is
\* an unnamed entry that a blank line precedes or that was reached with the
\* break pending; a spread passes the pending break on.
RECURSIVE PendingAfter(_)
PendingAfter(m) ==
  IF m = NoNode THEN FALSE
  ELSE IF IsSpread(m) THEN PendingAfter(MemberBefore(m))
  ELSE /\ IsEntry(m)
       /\ ~IsNamed(m)
       /\ (GapAt(m) \/ PendingAfter(MemberBefore(m)))

\* The last member of the object literal o handled so far, NoNode for none.
LastHandled(o) ==
  LET done == {i \in 1..(pc - 1) :
                 \E k \in 1..Len(MembersOf(events, o)) : MembersOf(events, o)[k] = i}
  IN  IF done = {} THEN NoNode ELSE CHOOSE i \in done : \A j \in done : j <= i

\* C14: with allowLineSeparatedGroups, the break opened by a blank line before
\* an unnamed entry stays pending over the unnamed entries that follow and is
\* used up by the next named entry; that entry is not reported, and the entry
\* after it is compared with it as the base comparator says.
C14_PendingBreak ==
  opts.allowLineSeparatedGroups =>
    /\ \A k \in 1..Len(stack) :
         (~Exempt(OpenAt(k)) /\ ~Suspended(OpenAt(k))) =>
           (stack[k].prevBlankLine <=> PendingAfter(LastHandled(OpenAt(k))))
    /\ AtEnd => \A t \in Compared :
         FlatPolicy(ObjectOf(t)) =>
           /\ PendingAfter(MemberBefore(t)) => ReportsAt(t) = {}
           /\ (MemberBefore(t) = PrevNamed(t) /\ ~GapAt(t)
                 /\ PendingAfter(MemberBefore(PrevNamed(t)))) =>
                (ReportsAt(t) # {} <=> ~BaseAccepts(PrevNamed(t), t))

\* A named entry after two unnamed entries, the first of them after a blank
\* line, is not reported although the base comparator rejects it after the
\* named entry before the blank line.
C14_Witness ==
  /\ AtEnd
  /\ opts.allowLineSeparatedGroups
  /\ \E t \in Compared :
       LET u == MemberBefore(t)
       IN  /\ u # NoNode /\ IsEntry(u) /\ ~IsNamed(u) /\ ~GapAt(u)
           /\ MemberBefore(u) # NoNode /\ GapAt(MemberBefore(u))
           /\ ~IsNamed(MemberBefore(u))
           /\ ~GapAt(t)
           /\ ~BaseAccepts(PrevNamed(t), t)
           /\ ReportsAt(t) = {}

\* C15: a frame is marked ignore exactly when ignoreSingleLine is set and its
\* object literal or one around it is on a single line, so the mark is handed
\* down the stack; no report is made in such a literal, and with the option set
\* a literal on several lines with no single-line literal around it is checked
\* as the base comparator says.
C15_SingleLineExemption ==
  /\ \A k \in 1..Len(stack) :
       /\ stack[k].ignore <=>
            (opts.ignoreSingleLine /\ \E j \in 1..k : events[OpenAt(j)].oneLine)
       /\ (k > 1 /\ stack[k - 1].ignore) => stack[k].ignore
  /\ \A r \in 1..Len(reports) :
       ~(opts.ignoreSingleLine
           /\ \E o \in Enclosing(reports[r].node) : events[o].oneLine)
  /\ AtEnd => \A t \in Compared :
       (opts.ignoreSingleLine /\ BasePolicy(ObjectOf(t))
          /\ \A o \in Enclosing(t) : ~events[o].oneLine)
       => (ReportsAt(t) # {} <=> ~BaseAccepts(PrevNamed(t), t))

\* With ignoreSingleLine, a single-line literal with a rejected pair lies in a
\* literal on several lines: the inner pair is not reported, the outer one is.
C15_Witness ==
  /\ AtEnd
  /\ opts.ignoreSingleLine
  /\ \E t \in Compared, n \in Compared :
       /\ events[ObjectOf(t)].oneLine
       /\ ~BaseAccepts(PrevNamed(t), t)
       /\ ReportsAt(t) = {}
       /\ ObjectOf(t) = PrevNamed(n) + 1
       /\ ~events[ObjectOf(n)].oneLine
       /\ ReportsAt(n) # {}

\* The node to be handled is an entry of a destructuring pattern.
AtPatternEntry ==
  pc <= Len(events) /\ Node.type = "Property" /\ Node.parentType = "ObjectPattern"

\* C16: handling an entry of a destructuring pattern reports nothing and
\* leaves the stack of frames as it is, whether the stack is empty or the
\* pattern lies in the value of an entry of an object literal.
C16_PatternEntryPassesThrough ==
  [][AtPatternEntry => (stack' = stack /\ reports' = reports)]_vars

\* Two entries of a pattern that the base comparator rejects have been handled
\* with no frame on the stack, and two more inside an object literal.
C16_Witness ==
  /\ \E i \in 2..(pc - 1) :
       /\ events[i].type = "Property" /\ events[i].parentType = "ObjectPattern"
       /\ events[i - 1].type = "Property" /\ events[i - 1].parentType = "ObjectPattern"
       /\ ~BaseAccepts(i - 1, i)
       /\ Enclosing(i) = {}
  /\ \E i \in 2..(pc - 1) :
       /\ events[i].type = "Property" /\ events[i].parentType = "ObjectPattern"
       /\ events[i - 1].type = "Property" /\ events[i - 1].parentType = "ObjectPattern"
       /\ ~BaseAccepts(i - 1, i)
       /\ Enclosing(i) # {}
       /\ stack # <<>>
  /\ reports = <<>>

\* The text of a report before the names are filled in.
Template(report) ==
  IF report.message # "" THEN report.message ELSE messages(report.messageId)

\* C17: a report the override comparator decides has the override's own
\* message followed by the standard suffix when the override declares one, and
\* the template of sortKeysOverride otherwise; a report the groupings or the
\* base comparator decide has the template of its own reason, also in a frame
\* an override with a message governs.
C17_OverrideMessage ==
  \A r \in 1..Len(reports) :
     LET t == reports[r].node
         p == PrevNamed(t)
         v == ResolveOverride(events[ObjectOf(t)])
         byOverride == v # NoOverride /\ OverrideVerdict(p, t) = "false"
     IN  /\ reports[r].thisName = events[t].name
         /\ reports[r].prevName = events[p].name
         /\ (byOverride /\ Overrides[v].message # "") =>
              Template(reports[r]) = Overrides[v].message \o MessageSuffix
         /\ (byOverride /\ Overrides[v].message = "") =>
              Template(reports[r]) = messages("sortKeysOverride")
         /\ ~byOverride =>
              /\ reports[r].message = ""
              /\ Template(reports[r]) \in
                   {messages("sortKeysAllCaps"), messages("sortKeysShorthand"),
                    messages("sortKeys")}

\* In a literal that an override with a message governs, one entry is
\* reported with that message and another one with a standard template.
C17_Witness ==
  \E r1 \in 1..Len(reports), r2 \in 1..Len(reports) :
     LET v == ResolveOverride(events[ObjectOf(reports[r1].node)])
     IN  /\ ObjectOf(reports[r1].node) = ObjectOf(reports[r2].node)
         /\ v # NoOverride
         /\ Overrides[v].message = "CUSTOM_MESSAGE"
         /\ Template(reports[r1]) =
              "CUSTOM_MESSAGE '{{thisName}}' should be before '{{prevName}}'."
         /\ reports[r2].message = ""

\* A code unit of a decimal digit.
IsDigit(c) == c >= 48 /\ c <= 57

\* The zero at position k of s leads a run of digits and is not its last digit.
LeadingZero(s, k) ==
  /\ s[k] = 48
  /\ k < Len(s) /\ IsDigit(s[k + 1])
  /\ \E m \in 1..k :
       /\ m = 1 \/ ~IsDigit(s[m - 1])
       /\ \A j \in m..k : s[j] = 48

\* s with every run of digits written without leading zeros: runs of digits
\* count by their value.
RECURSIVE DropLeadingZeros(_, _)
DropLeadingZeros(s, k) ==
  IF k > Len(s) THEN <<>>
  ELSE (IF LeadingZero(s, k) THEN <<>> ELSE <<s[k]>>) \o DropLeadingZeros(s, k + 1)

\* A name as the configured comparator reads it: lower-cased when case is
\* ignored, runs of digits by value when the order is natural.
Normalized(s) ==
  LET folded == IF opts.insensitive THEN toLowerCase(s) ELSE s
  IN  IF opts.natural THEN DropLeadingZeros(folded, 1) ELSE folded

\* The static names of the entries of the file.
NamesInFile ==
  {events[i].name : i \in {j \in 1..Len(events) : IsNamed(j)}}

SameCaps(a, b) == (a = toUpperCase(a)) <=> (b = toUpperCase(b))

\* The entries p and t are both shorthand, or neither is.
SameShorthand(p, t) == events[p].shorthand <=> events[t].shorthand

\* C19 as stated: for a compared pair of entries of the same class (both
\* constants or neither, both shorthand or neither), and for every pair when
\* the option is ignore, the grouping predicate gives no verdict; a pair that
\* neither grouping predicate and no override decides is reported exactly when
\* the base comparator rejects it.
C19_SameClassLeftToBase ==
  AtEnd => \A t \in Compared :
     (Checked(ObjectOf(t)) /\ ~opts.allowLineSeparatedGroups) =>
       LET p == PrevNamed(t)
           a == events[p].name
           b == events[t].name
           noCaps == opts.allCaps = "ignore" \/ SameCaps(a, b)
           noShorthand == opts.shorthand = "ignore" \/ SameShorthand(p, t)
       IN  /\ noCaps => isValidOrderAllCaps(opts.allCaps, a, b) = "null"
           /\ noShorthand =>
                isValidOrderShorthand(opts.shorthand, events[p].shorthand,
                                      events[t].shorthand) = "null"
           /\ (noCaps /\ noShorthand /\ OverrideVerdict(p, t) = "null") =>
                (ReportsAt(t) # {} <=> ~BaseAccepts(p, t))

\* An override of the options declares neither an order nor ignore: true.
Malformed ==
  \E i \in 1..Len(Overrides) :
     Overrides[i].order = NoOrder /\ ~Overrides[i].ignore

\* C20 as stated: options with an override that declares neither an order nor
\* ignore: true are rejected when the rule is created: a lint with such
\* options has ended, whenever it has ended, by an exception raised before any
\* node was handled, never by one raised at a node and never by handling
\* every node.
C20_MalformedOverrideRejectedAtCreate ==
  (Malformed /\ (thrown # "" \/ AtEnd)) =>
    (thrown # "" /\ pc = 1 /\ stack = <<>>)

\* ------------------------------------------------------------------- C21

\* The edit script of a report that carries a fix.
EditsOf(report) == fixes(events, report.fixNode, report.fixPrevNode)

\* The entries whose span, or one of whose comments, the report's edit script
\* edits.
Touched(report) ==
  {EditsOf(report)[k].target.node : k \in 1..Len(EditsOf(report))}

\* C21 as stated: two reports with fixes made within the same object literal
\* in one traversal touch disjoint sets of entries.
C21_FixesTouchDisjointEntries ==
  \A i \in 1..Len(reports), j \in 1..Len(reports) :
     (/\ i # j
      /\ reports[i].fix
      /\ reports[j].fix
      /\ ObjectOf(reports[i].node) = ObjectOf(reports[j].node))
       => Touched(reports[i]) \cap Touched(reports[j]) = {}

\* ------------------------------------------------------------------- C22

\* The edits that exchange the entries p and t with their comments: each
\* entry's span replaced by the other's text and, for each comment before
\* either entry, the comment's text (with a line break) inserted before the
\* other entry and the comment removed.
SwapEdits(p, t) ==
  LET otherOf(n) == IF n = p THEN t ELSE p
  IN  {[op |-> "replaceText", target |-> Span(n, 0),
        text |-> TextOf(Span(otherOf(n), 0), FALSE)] : n \in {p, t}}
        \cup
      UNION {UNION {{[op |-> "insertTextBefore", target |-> Span(otherOf(n), 0),
                      text |-> TextOf(Span(n, k), TRUE)],
                     [op |-> "remove", target |-> Span(n, k), text |-> NoText]} :
                      k \in 1..events[n].comments} :
               n \in {p, t}}

\* The position in the edit script of the insertion of the k-th comment of n.
InsertionOf(edits, n, k) ==
  CHOOSE x \in 1..Len(edits) :
     edits[x].op = "insertTextBefore" /\ edits[x].text = TextOf(Span(n, k), TRUE)

\* C22: the edit script of the fix for a violation between the preceding entry
\* p and the offending entry t holds exactly, and each once, the replacement
\* of p's span by t's text, the replacement of t's span by p's text and, for
\* each comment before either entry, one insertion of its text before the
\* other entry and one removal of the comment; the comments of one entry are
\* inserted in their source order; no other span is edited.
C22_FixSwapsEntriesAndComments ==
  \A r \in 1..Len(reports) :
     reports[r].fix =>
       LET p == reports[r].fixPrevNode
           t == reports[r].fixNode
           edits == EditsOf(reports[r])
       IN  /\ p = PrevNamed(t)
           /\ {edits[x] : x \in 1..Len(edits)} = SwapEdits(p, t)
           /\ Len(edits) = Cardinality(SwapEdits(p, t))
           /\ \A n \in {p, t} : \A k \in 1..events[n].comments :
                 \A l \in 1..(k - 1) :
                    InsertionOf(edits, n, l) < InsertionOf(edits, n, k)

\* A fix is reported for a pair of entries that both have comments before
\* them, the offending one more than one.
C22_Witness ==
  \E r \in 1..Len(reports) :
     /\ reports[r].fix
     /\ events[reports[r].fixPrevNode].comments > 0
     /\ events[reports[r].fixNode].comments > 1

\* ------------------------------------------------------------------- C23

\* The step leaves every frame under the top one as it is; entering an object
\* literal leaves the top one as it is too, and leaving one removes just the
\* top one.
EnclosingFramesKept ==
  /\ \A k \in 1..(Len(stack) - 1) : Len(stack') >= k /\ stack'[k] = stack[k]
  /\ Len(stack') > Len(stack) => SubSeq(stack', 1, Len(stack)) = stack
  /\ (pc <= Len(events) /\ Node.type = "ObjectExpression:exit")
       => Len(stack') = Len(stack) - 1

\* The previous entry of every frame is an entry of the frame's own object
\* literal, and so are both entries of every fix.
ComparedWithinOneLiteral ==
  /\ \A k \in 1..Len(stack) :
       stack[k].prevNode # NoNode => ObjectOf(stack[k].prevNode) = OpenAt(k)
  /\ \A r \in 1..Len(reports) :
       reports[r].fix => ObjectOf(reports[r].fixPrevNode) = ObjectOf(reports[r].node)

\* C23: entering, handling and leaving an object literal that lies in the
\* value of an entry leaves the enclosing frame (previous entry, previous
\* name, whether that name was skipped, pending blank line) as it was when the
\* nested literal was entered, and no entry of a nested literal is compared
\* with an entry of the enclosing one.
C23_NestedLiteralLeavesEnclosingFrame ==
  [][EnclosingFramesKept]_vars /\ []ComparedWithinOneLiteral

\* A nested literal with two named entries has just been left, and the
\* enclosing frame still holds the entry whose value it is.
C23_Witness ==
  /\ pc > 1
  /\ events[pc - 1].type = "ObjectExpression:exit"
  /\ stack # <<>>
  /\ Top.prevNode # NoNode
  /\ Top.prevName # NoName
  /\ \E o \in ObjectsIn(events) :
       /\ ExitOf(events, o) = pc - 1
       /\ Top.prevNode < o
       /\ Len(StaticNames(events[o])) >= 2

\* ------------------------------------------------------------------- C24

\* constantGrouping = first with the case-insensitive ascending order.
Scenario4Options ==
  [DefaultOptions EXCEPT !.insensitive = TRUE, !.allCaps = "first"]

\* The file whose one object literal holds the named entries `names`.
LiteralOf(names) ==
  FileOf(<<>>, [k \in 1..Len(names) |-> Named(names[k], FALSE)], FALSE, {})

\* The lint of var obj = {b_: 1, c: 2, C: 3} under the options of scenario 4
\* has ended.
Scenario4Ended ==
  /\ opts = Scenario4Options
  /\ events = LiteralOf(<<sb_, sc, sC>>)
  /\ pass = 1
  /\ AtEnd

\* There is one report, it names thisName as to stand before prevName, and its
\* fix makes the literal hold `fixed`.
OneFixTo(thisName, prevName, fixed) ==
  /\ Len(reports) = 1
  /\ reports[1].thisName = thisName
  /\ reports[1].prevName = prevName
  /\ reports[1].fix
  /\ createFixer(events, reports[1].fixNode, reports[1].fixPrevNode)
       = LiteralOf(fixed)

\* C24 as stated: with constantGrouping = first and the case-insensitive
\* ascending order the entries [b_, c, C] yield the violation "C should be
\* before b_" and the fix yields [C, b_, c].
C24_Scenario4 ==
  Scenario4Ended => OneFixTo(sC, sb_, <<sC, sb_, sc>>)

\* C24 as amended: the entries [b_, c, C] yield the one violation "C should be
\* before c", reported for constant grouping, and the fix yields [b_, C, c].
C24_Scenario4Adjacent ==
  Scenario4Ended =>
    (OneFixTo(sC, sc, <<sb_, sC, sc>>) /\ Reason(reports[1]) = "sortKeysAllCaps")

\* The lint of scenario 4 has ended with a report.
C24_Witness == Scenario4Ended /\ reports # <<>>

\* ------------------------------------------------------------------- C25

\* What the traversal of a file of flat literals under the base policy
\* reports when it runs alone: one report, with both names, at each named
\* entry that the base comparator rejects after the most recent named entry,
\* no other report, and the reports in the order of the entries.
ReportsAsAlone ==
  /\ \A t \in Compared :
       IF BaseAccepts(PrevNamed(t), t)
       THEN ReportsAt(t) = {}
       ELSE ReportedAgainst(t, PrevNamed(t))
  /\ \A r \in 1..Len(reports) : reports[r].node \in Compared
  /\ \A q \in 1..Len(reports) : \A r \in (q + 1)..Len(reports) :
       reports[q].node < reports[r].node

\* C25: of two traversals, each with its own instantiation of the rule and
\* its own stack, whose node events the host interleaves in any order, each
\* has reported at its end exactly what it reports when it runs alone.
C25_InterleavedTraversalsAreIndependent == AtEnd => ReportsAsAlone

\* Both traversals are under way and both have reported already.
C25_Witness ==
  /\ other # NoTraversal
  /\ pc <= Len(events)
  /\ other.pc <= Len(other.events)
  /\ reports # <<>>
  /\ other.reports # <<>>

\* ------------------------------------------------------------------- C26

\* The entries p and t stand side by side in an object literal whose entries
\* are compared, with no blank-line grouping.
SideBySide(p, t) ==
  /\ p = MemberBefore(t)
  /\ Checked(ObjectOf(t))
  /\ ~opts.allowLineSeparatedGroups

\* C26: a report at an entry does not change how the traversal goes on.  The
\* entry is the previous entry of its frame from then on, as an entry without
\* a report is; the entry after a reported entry is reported exactly when the
\* comparison with the reported entry fails, and against that entry; and no
\* entry is reported twice.
C26_ReportDoesNotStopTraversal ==
  /\ \A i \in 1..(pc - 1) : Cardinality(ReportsAt(i)) <= 1
  /\ \A k \in 1..Len(stack) :
       LET last == LastHandled(OpenAt(k))
       IN  (last # NoNode /\ IsNamed(last) /\ Checked(OpenAt(k))) =>
             (stack[k].prevNode = last /\ stack[k].prevName = events[last].name)
  /\ AtEnd => \A t \in Compared :
       (SideBySide(PrevNamed(t), t) /\ ReportsAt(PrevNamed(t)) # {}) =>
         IF PairVerdict(PrevNamed(t), t) = ""
         THEN ReportsAt(t) = {}
         ELSE ReportedAgainst(t, PrevNamed(t))

\* Two entries in a row have been reported, the second against the first.
C26_Witness ==
  \E t \in Compared :
     /\ SideBySide(PrevNamed(t), t)
     /\ ReportsAt(PrevNamed(t)) # {}
     /\ ReportsAt(t) # {}

\* ------------------------------------------------------------------- C27

\* Frame k of the stack is the one pushed for the object literal o: it holds
\* the number of o's members and the key o is the value of.
FrameOf(k, o) ==
  /\ stack[k].numKeys = Len(events[o].properties)
  /\ stack[k].parentName =
       (IF events[o].parent.type = "Property" /\ ~events[o].parent.computed
        THEN events[o].parent.keyName ELSE NoName)
  /\ stack[k].prevNode # NoNode => ObjectOf(stack[k].prevNode) = o

\* C27: at every point of a traversal the stack holds as many frames as
\* object literals have been entered and not left, frame by frame in the
\* order of nesting, the top frame being that of the innermost open literal;
\* when the root literal has been left the stack is empty.
C27_StackMirrorsOpenLiterals ==
  /\ Len(stack) = Cardinality(OpenObjects)
  /\ \A k \in 1..Len(stack) : FrameOf(k, OpenAt(k))
  /\ stack # <<>> =>
       \A o \in OpenObjects : o <= OpenAt(Len(stack))
  /\ AtEnd => stack = <<>>

\* The traversal is inside a literal that lies in the value of an entry of
\* another, after an entry of the inner one was handled.
C27_Witness ==
  /\ Len(stack) = 2
  /\ Top.prevNode # NoNode
  /\ stack[1].prevNode # NoNode
  /\ Top.numKeys # stack[1].numKeys

\* ------------------------------------------------------------------- C28

\* Node i lies in the value of the entry e.
InValueOf(i, e) == e < i /\ i < e + events[e].size

\* Node i is a member that follows the entry e in the object literal of e.
FollowsIn(i, e) == ObjectOf(i) = ObjectOf(e) /\ i > e

\* C28: the reports are made in the order of the traversal.  For an entry e
\* whose value holds an object literal, a report at e comes before the
\* reports made in its value, and these come before the reports at the
\* entries that follow e in its own literal.
C28_ReportsInTraversalOrder ==
  \A q \in 1..Len(reports) : \A r \in 1..Len(reports) :
     LET a == reports[q].node
         b == reports[r].node
     IN  /\ InValueOf(b, a) => q < r
         /\ (\E e \in 1..Len(events) :
               IsEntry(e) /\ InValueOf(a, e) /\ FollowsIn(b, e)) => q < r
         /\ q < r => a < b

\* An entry with a literal in its value, an entry of that literal and the
\* entry after the first have all three been reported.
C28_Witness ==
  \E e \in 1..Len(events) :
     /\ IsEntry(e)
     /\ ReportsAt(e) # {}
     /\ \E r \in 1..Len(reports) : InValueOf(reports[r].node, e)
     /\ \E r \in 1..Len(reports) : FollowsIn(reports[r].node, e)

\* ------------------------------------------------------------------- C29

\* The entry i has a computed key that is a bare identifier: {[a]: 1}.
ComputedIdentifier(i) ==
  IsEntry(i) /\ events[i].computed /\ events[i].key.type = "Identifier"

\* The entry i has a key that is a literal: {'a': 1}, {1: 1}, {['a']: 1}.
StaticLiteral(i) == IsEntry(i) /\ events[i].key.type = "Literal"

\* The reports at t carry a fix that exchanges t with p.
FixedAgainst(t, p) ==
  \A r \in ReportsAt(t) :
     reports[r].fix /\ reports[r].fixNode = t /\ reports[r].fixPrevNode = p

\* C29: an entry with a computed key that is a bare identifier is a named
\* entry, its name the identifier's; it is compared with the entries beside
\* it and is the offending or the preceding entry of a violation with a fix
\* as any named entry is.  Of the entries with a computed key only those
\* whose key is neither a literal nor a bare identifier are unnamed.
C29_ComputedIdentifierIsNamed ==
  /\ \A i \in 1..Len(events) :
       /\ ComputedIdentifier(i) => getPropertyName(events[i]) = events[i].key.name
       /\ (IsEntry(i) /\ events[i].computed) =>
            (getPropertyName(events[i]) = NoName
               <=> ~ComputedIdentifier(i) /\ ~StaticLiteral(i))
  /\ AtEnd => \A t \in 1..Len(events) :
       LET p == IF IsEntry(t) THEN MemberBefore(t) ELSE NoNode
       IN  (/\ p # NoNode
            /\ IsEntry(p)
            /\ ComputedIdentifier(p) \/ ComputedIdentifier(t)
            /\ ~ComputedIdentifier(p) => getStaticPropertyName(events[p]) # NoName
            /\ ~ComputedIdentifier(t) => getStaticPropertyName(events[t]) # NoName
            /\ BasePolicy(ObjectOf(t))
            /\ ~Exempt(ObjectOf(t))) =>
             IF isValidOrderAlpha(
                  IF ComputedIdentifier(p) THEN events[p].key.name
                  ELSE getStaticPropertyName(events[p]),
                  IF ComputedIdentifier(t) THEN events[t].key.name
                  ELSE getStaticPropertyName(events[t]))
             THEN ReportsAt(t) = {}
             ELSE Cardinality(ReportsAt(t)) = 1 /\ FixedAgainst(t, p)

\* An entry with a computed identifier key has been reported with a fix, and
\* another report's fix has such an entry as the preceding one.
C29_Witness ==
  /\ \E r \in 1..Len(reports) :
       reports[r].fix /\ ComputedIdentifier(reports[r].fixNode)
         /\ ~ComputedIdentifier(reports[r].fixPrevNode)
  /\ \E r \in 1..Len(reports) :
       reports[r].fix /\ ComputedIdentifier(reports[r].fixPrevNode)
         /\ ~ComputedIdentifier(reports[r].fixNode)

\* ------------------------------------------------------------------- C30

\* The name has no lower-case letter.
NoLowerCase(name) == \A i \in 1..Len(name) : ~(name[i] >= 97 /\ name[i] <= 122)

\* Constant grouping rejects the entry t after the entry p: of the two, the
\* one without a lower-case letter stands on the wrong side.
GroupingRejects(p, t) ==
  LET pCaps == NoLowerCase(events[p].name)
      tCaps == NoLowerCase(events[t].name)
  IN  \/ opts.allCaps = "first" /\ tCaps /\ ~pCaps
      \/ opts.allCaps = "last" /\ pCaps /\ ~tCaps

\* C30: a name is constant-style exactly when it equals its own upper-case
\* form, so a name without a lower-case letter ($, _, a name of digits, the
\* empty name) is constant-style.  Where constant grouping is on and no
\* override governs, an entry is reported for constant grouping exactly when
\* it and the entry it is compared with differ in that and stand on the wrong
\* sides; when they differ and stand on the right sides, the base comparator
\* is not asked.
C30_ConstantStyleIsOwnUpperCase ==
  /\ \A n \in NamesInFile : (n = toUpperCase(n)) <=> NoLowerCase(n)
  /\ AtEnd => \A t \in Compared :
       (/\ opts.allCaps # "ignore"
        /\ opts.shorthand = "ignore"
        /\ ResolveOverride(events[ObjectOf(t)]) = NoOverride
        /\ Checked(ObjectOf(t))
        /\ ~opts.allowLineSeparatedGroups) =>
          LET p == PrevNamed(t)
          IN  /\ GroupingRejects(p, t) <=>
                   \E r \in ReportsAt(t) : Reason(reports[r]) = "sortKeysAllCaps"
              /\ (NoLowerCase(events[p].name) # NoLowerCase(events[t].name)
                     /\ ~GroupingRejects(p, t)) => ReportsAt(t) = {}

\* One of the names $, _, 1 and the empty name has been reported for constant
\* grouping after a name with a lower-case letter.
C30_Witness ==
  \E t \in Compared :
     /\ ~NoLowerCase(events[PrevNamed(t)].name)
     /\ events[t].name \in {sDollar, sUnder, s1, sEmpty}
     /\ \E r \in ReportsAt(t) : Reason(reports[r]) = "sortKeysAllCaps"

\* ------------------------------------------------------------------- C31

\* The position after the run of digits of s that starts at position i.
RECURSIVE RunEnd(_, _)
RunEnd(s, i) == IF i <= Len(s) /\ IsDigit(s[i]) THEN RunEnd(s, i + 1) ELSE i

\* The value of the digits of s at the positions from..(to - 1).
RECURSIVE RunValue(_, _, _)
RunValue(s, from, to) ==
  IF to <= from THEN 0 ELSE 10 * RunValue(s, from, to - 1) + (s[to - 1] - 48)

\* a from position i sorts at or before b from position j, runs of digits
\* compared by their value and every other character by its code point.
RECURSIVE NaturalLE(_, _, _, _)
NaturalLE(a, b, i, j) ==
  IF i > Len(a) THEN TRUE
  ELSE IF j > Len(b) THEN FALSE
  ELSE IF IsDigit(a[i]) /\ IsDigit(b[j])
  THEN LET va == RunValue(a, i, RunEnd(a, i))
           vb == RunValue(b, j, RunEnd(b, j))
       IN  IF va # vb THEN va < vb
           ELSE NaturalLE(a, b, RunEnd(a, i), RunEnd(b, j))
  ELSE IF a[i] # b[j] THEN a[i] < b[j]
  ELSE NaturalLE(a, b, i + 1, j + 1)

\* C31 as stated: in natural mode ascNatural(a, b) is true if and only if a
\* sorts at or before b with runs of digits compared by numeric value and all
\* other characters by code point; 2 precedes 11 in natural mode and 11
\* precedes 2 in lexicographic mode.
C31_NaturalOrder ==
  /\ ascN(s2, s11) /\ ~ascN(s11, s2)
  /\ asc(s11, s2) /\ ~asc(s2, s11)
  /\ (AtEnd /\ opts.natural /\ ~opts.insensitive) =>
       \A a \in NamesInFile, b \in NamesInFile :
          isValidOrders("asc", FALSE, TRUE, a, b) <=> NaturalLE(a, b, 1, 1)

\* ------------------------------------------------------------------- C32

\* Of the overrides in hits, the one with the fewest declared keys, and of
\* those with as few the one declared first.
ShortestFirst(hits) ==
  CHOOSE i \in hits :
     \A j \in hits :
        \/ Len(Overrides[i].order) < Len(Overrides[j].order)
        \/ Len(Overrides[i].order) = Len(Overrides[j].order) /\ i <= j

\* C32 as stated: where no parent-key and no selector override applies and
\* the declared orders of several unscoped overrides each hold the set of the
\* literal's static names (at least minKeys of them), the frame's override is
\* the one with the fewest declared keys, the earliest declared of those of
\* equal length, whatever was traversed before.
C32_ShortestOrderGoverns ==
  \A k \in 1..Len(stack) :
     LET o == OpenAt(k)
     IN  (ParentHits(o) = {} /\ SelectorHits(o) = {} /\ SubsetHits(o) # {}) =>
           stack[k].override = ShortestFirst(SubsetHits(o))

\* C33: when no override keyed by the enclosing entry's name applies and several
\* overrides scoped by a selector match a literal, the earliest declared of the
\* matching ones governs its frame, whatever was traversed before; resolving
\* the literal neither throws nor reports anything.
C33_EarliestSelectorGoverns ==
  \A k \in 1..Len(stack) :
     LET o == OpenAt(k)
     IN  (ParentHits(o) = {} /\ SelectorHits(o) # {}) =>
           /\ stack[k].override \in SelectorHits(o)
           /\ \A j \in SelectorHits(o) : stack[k].override <= j
           /\ pc = o + 1 =>
                /\ thrown = ""
                /\ \A r \in 1..Len(reports) : reports[r].node < o

\* A literal that two selectors match, and no override by its parent's key, has
\* just been opened under the first of them.
C33_Witness ==
  /\ stack # <<>>
  /\ LET o == OpenAt(Len(stack))
     IN  /\ pc = o + 1
         /\ ParentHits(o) = {}
         /\ Cardinality(SelectorHits(o)) >= 2
         /\ stack[Len(stack)].override = 1
         /\ reports # <<>>

\* ------------------------------------------------------------------- C34

\* Event i is a spread whose parent is not an object literal.
IsOutsideSpread(i) ==
  /\ events[i].type \in {"SpreadElement", "ExperimentalSpreadProperty"}
  /\ events[i].parentType # "ObjectExpression"

\* Handling such a spread changes no frame, reports nothing and does not fail.
OutsideSpreadKeepsFrames ==
  (thrown = "" /\ pc <= Len(events) /\ IsOutsideSpread(pc)) =>
     /\ stack' = stack
     /\ reports' = reports
     /\ thrown' = ""
     /\ pc' = pc + 1

\* An entry whose value holds such a spread is still the one the next named
\* entry is compared with.
ComparedAcrossOutsideSpread ==
  AtEnd => \A t \in Compared :
     LET p == MemberBefore(t)
     IN  (/\ BasePolicy(ObjectOf(t)) /\ ~Exempt(ObjectOf(t))
          /\ IsNamed(p)
          /\ \E s \in (p + 1)..(t - 1) : IsOutsideSpread(s))
         => (ReportsAt(t) # {} <=> ~BaseAccepts(p, t))

\* C34: a spread whose parent is not an object literal leaves every frame as
\* it is, also when it lies in the value of an entry of an open literal, so
\* that the entries around it are compared as without it; it is handled
\* without a failure, also while no literal is open.
C34_OutsideSpreadLeavesFrames ==
  [][OutsideSpreadKeepsFrames]_vars /\ []ComparedAcrossOutsideSpread

\* The file starts with such a spread, handled while no literal was open, and
\* another one in the value of a named entry has just been handled: the frame
\* still holds that entry.
C34_Witness ==
  /\ thrown = ""
  /\ IsOutsideSpread(1)
  /\ pc > 2 /\ pc <= Len(events) + 1
  /\ IsOutsideSpread(pc - 1)
  /\ stack # <<>>
  /\ Top.prevNode # NoNode
  /\ Top.prevName # NoName
  /\ InValueOf(pc - 1, Top.prevNode)

\* ------------------------------------------------------------------- C35

\* C35: the entry a report with a fix hands to the fixer as the preceding one
\* is the entry whose name the report gives as the preceding name, and it is
\* the member right before the reported entry in the same object literal: no
\* named entry, unnamed entry or spread lies between the two.
C35_FixPairIsAdjacent ==
  \A r \in 1..Len(reports) :
     reports[r].fix =>
       LET t == reports[r].node
           p == reports[r].fixPrevNode
       IN  /\ reports[r].fixNode = t
           /\ IsEntry(p) /\ IsEntry(t)
           /\ p < t
           /\ ObjectOf(p) = ObjectOf(t)
           /\ events[p].name # NoName
           /\ events[p].name = reports[r].prevName
           /\ events[t].name = reports[r].thisName
           /\ PositionOf(t) = PositionOf(p) + 1
           /\ \A m \in (p + 1)..(t - 1) :
                ~(ObjectOf(m) = ObjectOf(t) /\ (IsEntry(m) \/ IsSpread(m)))

\* A report with a fix was made for the third member of a literal whose first
\* member is a spread or an unnamed entry.
C35_Witness ==
  \E r \in 1..Len(reports) :
     /\ reports[r].fix
     /\ PositionOf(reports[r].node) = 3
     /\ ~IsNamed(MembersOf(events, ObjectOf(reports[r].node))[1])
     /\ reports[r].fixPrevNode = MembersOf(events, ObjectOf(reports[r].node))[2]

\* ------------------------------------------------------------------- C36

\* The number of members of the object literal o: entries with and without a
\* static name, and spreads.
MemberCount(o) == Len(MembersOf(events, o))

\* The number of its entries with a static name.
NamedCount(o) ==
  Cardinality({k \in 1..MemberCount(o) : IsNamed(MembersOf(events, o)[k])})

\* The conditions of the base policy on o other than the number of its members.
PlainPolicy(o) ==
  /\ ResolveOverride(events[o]) = NoOverride
  /\ opts.allCaps = "ignore"
  /\ opts.shorthand = "ignore"
  /\ ~opts.allowLineSeparatedGroups
  /\ ~Exempt(o)

\* C36: minKeys is compared with the number of all members of the object
\* literal, spreads and unnamed entries included: under the base policy an
\* entry is reported if and only if the literal has at least minKeys members
\* and the base comparator rejects the entry, also when fewer than minKeys of
\* the members are named.
C36_MinKeysCountsAllMembers ==
  /\ \A k \in 1..Len(stack) : stack[k].numKeys = MemberCount(OpenAt(k))
  /\ AtEnd => \A t \in Compared :
       PlainPolicy(ObjectOf(t)) =>
         (ReportsAt(t) # {} <=>
            /\ MemberCount(ObjectOf(t)) >= opts.minKeys
            /\ ~BaseAccepts(PrevNamed(t), t))

\* An entry is reported in a literal that has fewer than minKeys named entries
\* and, with a spread or an unnamed entry, minKeys members.
C36_Witness ==
  \E r \in 1..Len(reports) :
     LET o == ObjectOf(reports[r].node)
     IN  /\ PlainPolicy(o)
         /\ NamedCount(o) < opts.minKeys
         /\ MemberCount(o) = opts.minKeys

\* ------------------------------------------------------------------- C37

\* The object literal o lies in one that an override with ignore: true governs.
InSuspended(o) == \E e \in Enclosing(o) : Suspended(e)

\* The object literal o lies in one on a single line while single lines are
\* exempt.
InExempt(o) ==
  opts.ignoreSingleLine /\ \E e \in Enclosing(o) : events[e].oneLine

\* C37: an override with ignore: true suspends the checks of the frame it
\* governs only: a frame is exempt for the single-line option alone, and an
\* object literal nested in an ignored one is checked under the policy resolved
\* for itself; the single-line exemption is passed on to every nested frame,
\* where nothing is reported.
C37_IgnoreIsNotInherited ==
  /\ \A k \in 1..Len(stack) :
       /\ (k > 1 /\ stack[k - 1].ignore) => stack[k].ignore
       /\ (InSuspended(OpenAt(k)) /\ ~Exempt(OpenAt(k))) => ~stack[k].ignore
  /\ \A r \in 1..Len(reports) : ~InExempt(ObjectOf(reports[r].node))
  /\ (AtEnd /\ thrown = "") => \A t \in Compared :
       LET o == ObjectOf(t)
           p == MemberBefore(t)
       IN  (InSuspended(o) /\ Checked(o) /\ IsNamed(p)
              /\ ~opts.allowLineSeparatedGroups)
           => (ReportsAt(t) # {} <=> PairVerdict(p, t) # "")

\* A literal nested in an ignored one holds a reported entry, and the ignored
\* literal holds a pair its own policy would reject, not reported.
C37_Witness ==
  /\ AtEnd
  /\ \E t \in Compared, n \in Compared :
       /\ InSuspended(ObjectOf(t))
       /\ Enclosing(ObjectOf(t)) \cap {ObjectOf(n)} # {}
       /\ Suspended(ObjectOf(n))
       /\ ReportsAt(t) # {}
       /\ ~BaseAccepts(PrevNamed(n), n)
       /\ ReportsAt(n) = {}

\* ------------------------------------------------------------------- C38

\* C38: when several overrides list the key an object literal is the value of,
\* the one declared last governs the literal, and the reports made in it
\* carry that override's message.
C38_LatestParentKeyOverrideGoverns ==
  /\ \A k \in 1..Len(stack) :
       LET o == OpenAt(k)
       IN  ParentHits(o) # {} =>
             /\ stack[k].override \in ParentHits(o)
             /\ \A j \in ParentHits(o) : j <= stack[k].override
  /\ \A r \in 1..Len(reports) :
       LET o == ObjectOf(reports[r].node)
       IN  (ParentHits(o) # {} /\ Reason(reports[r]) = "sortKeysOverride") =>
             \A j \in ParentHits(o) :
                (\A i \in ParentHits(o) : i <= j) =>
                   reports[r].message =
                     IF Overrides[j].message = "" THEN ""
                     ELSE Overrides[j].message \o MessageSuffix

\* Two overrides list the key of the entry that holds a literal, and an entry
\* of the literal was reported with the later one's message.
C38_Witness ==
  \E r \in 1..Len(reports) :
     LET o == ObjectOf(reports[r].node)
     IN  /\ Cardinality(ParentHits(o)) = 2
         /\ reports[r].message = "CUSTOM_MESSAGE" \o MessageSuffix
         /\ Overrides[1].message = ""
         /\ Overrides[2].message = "CUSTOM_MESSAGE"

\* ------------------------------------------------------------------- C39

\* C39: an override with no scope governs an object literal only if every
\* static name of the literal is one of the names of the override's order; a
\* name that holds a comma does not stand for the names around the comma.
C39_UnscopedOverrideListsEveryName ==
  \A k \in 1..Len(stack) :
     LET o == OpenAt(k)
         v == stack[k].override
     IN  (v # NoOverride /\ ~Overrides[v].esquery /\ Overrides[v].properties = <<>>)
         => \A x \in NameSet(o) : InOrder(Overrides[v].order, x)

====
